---- MODULE Spec2Model ----
(***************************************************************************)
(* Pomodoro timer of deep-work-toolkit: the usePomodoro hook               *)
(* (src/unnamed/part_001), driven by the Controls buttons                  *)
(* (src/unnamed/part_002) as wired in src/src/pages/Index.tsx.             *)
(*                                                                         *)
(* React is modelled as follows.  The four useState cells hold the value   *)
(* they have once every queued update is applied (a later setX in the      *)
(* same batch overwrites an earlier one).  `rendered` is the snapshot of   *)
(* those cells taken by the last render: it is what the closures of the    *)
(* handlers (useCallback) and of the effects read.  endTimeRef is a        *)
(* useRef and is read and written immediately.  A button click is a        *)
(* discrete event, rendered synchronously at its end; updates made by a    *)
(* timer callback, an animation frame or the visibilitychange listener     *)
(* are rendered by a later task (Render), so other callbacks and clicks    *)
(* can run in between with the closures of the previous render.            *)
(*                                                                         *)
(* saveSession is asynchronous: handleSkip runs it up to its first await   *)
(* and goes on; what follows each await is a step of its own               *)
(* (GetUserSettles, InsertSettles), taken when the awaited call settles.   *)
(*                                                                         *)
(* Time is Date.now() in milliseconds. Durations are scaled down from      *)
(* 25/5/15 minutes to a few seconds, keeping work > longBreak > break,     *)
(* and so are the minute and the day.                                      *)
(*                                                                         *)
(* `plain` is the usePomodoro of src/unnamed/part_002, which has no        *)
(* saveSession; it receives every event the other hook receives.  The      *)
(* task list of Index (AddTask, ToggleTask, DeleteTask) and the two        *)
(* tables of the migration with their row level security policies          *)
(* (SqlSelect, SqlInsert, SqlUpdate, SqlDelete) have specifications of     *)
(* their own: SpecTasks and SpecRls.                                       *)
(*                                                                         *)
(* The other pages have specifications of their own too: the task form    *)
(* (SpecForm), the sign-up form of Auth (SpecSignUp), the AuthProvider     *)
(* with its listener and its session query (SpecAuth), and WeeklyReport:   *)
(* its load of a stored week and its suggestions (SpecWeek), its goals     *)
(* saved by a user who stays signed in (SpecGoals) and the page under a    *)
(* changing auth state (SpecReport).  Each await of loadData, saveGoal     *)
(* and handleSignUp is a step boundary, like those of saveSession.         *)
(***************************************************************************)
EXTENDS Integers, Sequences, FiniteSets, Bags, TLC

\* ---------------------------------------------------------------- bounds
\* Seconds of TIMES.work / TIMES.break / TIMES.longBreak, scaled down.
WorkSecs == 3
BreakSecs == 1
LongBreakSecs == 2
\* Date.now() stays within 0 .. MaxNowSecs * 1000.
MaxNowSecs == 4
\* completedSessions is driven up to this value.
MaxSessions == 8
\* Number of saveSession calls made at most.
MaxSaves == 9
\* Number of times the system clock is set back.
MaxSkew == 1
\* Seconds in a minute, scaled down like the durations.
SecsPerMin == 2
\* Session writes in flight at a time, where their settling is modelled.
MaxInFlight == 2
\* Session writes issued in all, where their settling is modelled.
MaxStoreSaves == 2
\* Seconds in a day, scaled down like the durations: the clock reaches the
\* next calendar day.
DaySecs == 4
\* Tasks added to the list in all.
MaxTasks == 2
\* saveSession calls made at most where the progress of the countdown is
\* checked.
MaxLiveSaves == 1
\* Sign-up forms submitted in a run.
MaxSubmits == 2
\* Sign-ins and sign-outs at the auth provider in a run.
MaxAuthChanges == 2
\* Clicks on the save button of a goal in a run.
MaxGoalSaves == 2
\* Auth changes and save clicks where the report runs under a changing
\* auth state.
MaxReportChanges == 1
MaxReportSaves == 1

\* ------------------------------------------------------------- constants
SESSIONS_UNTIL_LONG_BREAK == 4
MsPerSec == 1000

TIMES == [work |-> WorkSecs, break |-> BreakSecs, longBreak |-> LongBreakSecs]
Modes == {"work", "break", "longBreak"}

\* Amounts by which the clock moves between two callbacks (ms).
ClockSteps == {500, 1000}

\* endTimeRef.current = null
Null == -1

\* Date.prototype.getDay(): 0 = Sunday .. 6 = Saturday. The clock counts
\* from the local midnight that begins a Saturday, so that the next day is
\* day 0.
DaysPerWeek == 7
Saturday == 6
getDay(t) == (Saturday + t \div (DaySecs * MsPerSec)) % DaysPerWeek

\* task_name: null
NullText == "(null)"

\* The accounts of the project; supabase.auth.getUser() resolves to the
\* user object of the one signed in on this page, or to no user.
Users == {"u1", "u2"}
SignedIn == "u1"

\* What TaskInput passes to onAddTask: newTask.trim(), when not empty.
TaskTexts == {"read", "write"}

\* What can be typed into the input of TaskInput.
TypedTexts == {"", " ", "  ", "read", " read ", "read ", "write", "  write"}

\* String.prototype.trim(), for the space character.
RECURSIVE trimStart(_), trimEnd(_)
trimStart(text) ==
  IF Len(text) > 0 /\ SubSeq(text, 1, 1) = " "
  THEN trimStart(SubSeq(text, 2, Len(text))) ELSE text
trimEnd(text) ==
  IF Len(text) > 0 /\ SubSeq(text, Len(text), Len(text)) = " "
  THEN trimEnd(SubSeq(text, 1, Len(text) - 1)) ELSE text

\* the text taken as typed
trim_AsTyped(text) == text

trim(text) == trimEnd(trimStart(text))

VARIABLES
  mode,               \* useState<Mode>("work")
  timeLeft,           \* useState(TIMES.work)
  isRunning,          \* useState(false)
  completedSessions,  \* useState(0)
  endTimeRef,         \* useRef<number | null>(null)
  rendered,           \* the state cells as captured by the last render
  now,                \* Date.now()
  saveCalls,          \* number of saveSession("work") calls made so far
  fired,              \* expiry transitions since the last handleStart
  run,                \* the countdown in progress: when and from what it started
  seg,                \* wall-clock time spent running since timeLeft was last reloaded
  skews,              \* times the clock was set back
  last,               \* the last step taken
  awaitingUser,       \* saveSession calls awaiting supabase.auth.getUser()
  awaitingInsert,     \* saveSession calls awaiting the insert: the row they sent
  rows,               \* rows the study_sessions table has accepted
  logged,             \* whether the step just taken called console.error
  plain,              \* the usePomodoro without saveSession, given the same events
  currentTaskName,    \* Index: useState("")
  tasks,              \* Index: useState<Task[]>([])
  addedTexts,         \* the texts handleAddTask was called with, in order
  newTask,            \* TaskInput: useState("")
  isAdding,           \* TaskInput: useState(false)
  weekly_goals,       \* rows of the weekly_goals table
  sql,                \* the last statement the database ran as some user, and its result
  authPage,           \* Auth: the sign-up form's useState cells, its toasts, its pending signUp
  auth,               \* AuthProvider: its useState cells, and the provider it listens to
  report,             \* WeeklyReport: its useState cells, its pending loads and saves
  thisWeek            \* the pomodoro rows of study_sessions SignedIn completed this week

vars == <<mode, timeLeft, isRunning, completedSessions, endTimeRef, rendered,
          now, saveCalls, fired, run, seg, skews, last,
          awaitingUser, awaitingInsert, rows, logged, plain,
          currentTaskName, tasks, addedTexts, newTask, isAdding,
          weekly_goals, sql, authPage, auth, report, thisWeek>>

\* Index's own state, and the database besides study_sessions.
formVars == <<newTask, isAdding>>
pageVars == <<currentTaskName, tasks, addedTexts, formVars>>
dbVars == <<weekly_goals, sql>>
\* The pages besides Index.
otherPages == <<authPage, auth, report, thisWeek>>

\* ------------------------------------------------------------ arithmetic
Max(a, b) == IF a >= b THEN a ELSE b

\* Math.ceil(x / d) for an integer x and d > 0
Ceil(x, d) == -((-x) \div d)

\* the remaining time rounded down (Math.floor) instead of up
computeRemaining_Floor(end, t) == Max(0, ((end - t) \div MsPerSec))

\* Math.max(0, Math.ceil((endTimeRef.current - Date.now()) / 1000))
computeRemaining(end, t) == Max(0, Ceil(end - t, MsPerSec))

\* !endTimeRef.current
Falsy(e) == e = Null \/ e = 0

\* ------------------------------------------------------ the hook's state
\* The cells, the ref and the observable calls, as one value the handlers
\* transform.
Hook == [mode |-> mode, timeLeft |-> timeLeft, isRunning |-> isRunning,
         completedSessions |-> completedSessions, endTimeRef |-> endTimeRef,
         saveCalls |-> saveCalls, fired |-> fired,
         awaitingUser |-> awaitingUser]

\* What a render captures.
View(s) == [mode |-> s.mode, timeLeft |-> s.timeLeft, isRunning |-> s.isRunning,
            completedSessions |-> s.completedSessions]

\* --------------------------------------------------------------- handlers
\* Each handler maps the hook's state to the state after it has run. r is the
\* render whose closure runs (the values the useCallback captured), t is
\* Date.now().

\* handlePause that forgets the ref
handlePause_KeepRef(s) == [s EXCEPT !.isRunning = FALSE]

\* handleModeChange that leaves the countdown running
handleModeChange_NoStop(s, newMode) ==
  [s EXCEPT !.mode = newMode, !.timeLeft = TIMES[newMode]]

\* handleModeChange
handleModeChange(s, newMode) ==
  [s EXCEPT !.mode = newMode, !.timeLeft = TIMES[newMode],
            !.isRunning = FALSE, !.endTimeRef = Null]

\* handleStart restarting from the full duration of the mode
handleStart_Full(s, r, t) ==
  [s EXCEPT !.endTimeRef = t + TIMES[r.mode] * MsPerSec, !.isRunning = TRUE]

\* handleStart
handleStart(s, r, t) ==
  [s EXCEPT !.endTimeRef = t + r.timeLeft * MsPerSec, !.isRunning = TRUE]

\* handlePause that reloads the duration of the mode
handlePause_Reload(s) ==
  [s EXCEPT !.isRunning = FALSE, !.endTimeRef = Null, !.timeLeft = TIMES[s.mode]]

\* handlePause
handlePause(s) == [s EXCEPT !.isRunning = FALSE, !.endTimeRef = Null]

\* handleReset that also clears the count of completed sessions
handleReset_ResetCount(s, r) ==
  [s EXCEPT !.timeLeft = TIMES[r.mode], !.isRunning = FALSE, !.endTimeRef = Null,
            !.completedSessions = 0]

\* handleReset
handleReset(s, r) ==
  [s EXCEPT !.timeLeft = TIMES[r.mode], !.isRunning = FALSE, !.endTimeRef = Null]

\* The text of the task added last, null when none was.
lastAdded ==
  IF addedTexts = <<>> THEN NullText ELSE addedTexts[Len(addedTexts)]

\* saveSession up to its first await: the call is counted and
\* supabase.auth.getUser() is pending; it does not touch the timer state.
\* The pending call holds its argument and props.currentTask as its closure
\* captured it at the last render; completedDay and lastAdded record, for
\* the properties, the local day and the task added last when it was made.
saveSession(s, sessionMode) ==
  [s EXCEPT !.saveCalls = @ + 1,
            !.awaitingUser = @ (+) SetToBag({[sessionMode |-> sessionMode,
                                              currentTask |-> currentTaskName,
                                              completedDay |-> getDay(now),
                                              lastAdded |-> lastAdded]})]

\* handleSkip taking the long break from the count before the increment
handleSkip_OldCount(s, r) ==
  IF r.mode = "work"
  THEN LET newSessions == r.completedSessions + 1
           s1 == saveSession([s EXCEPT !.completedSessions = newSessions], "work")
       IN  IF r.completedSessions % SESSIONS_UNTIL_LONG_BREAK = 0
           THEN handleModeChange(s1, "longBreak")
           ELSE handleModeChange(s1, "break")
  ELSE handleModeChange(s, "work")

\* handleSkip that also writes a session when a break ends
handleSkip_SaveBreaks(s, r) ==
  IF r.mode = "work"
  THEN LET newSessions == r.completedSessions + 1
           s1 == saveSession([s EXCEPT !.completedSessions = newSessions], "work")
       IN  IF newSessions % SESSIONS_UNTIL_LONG_BREAK = 0
           THEN handleModeChange(s1, "longBreak")
           ELSE handleModeChange(s1, "break")
  ELSE handleModeChange(saveSession(s, r.mode), "work")

\* handleSkip that leaves the mode transition to the end of the write
handleSkip_SaveFirst(s, r) ==
  IF r.mode = "work"
  THEN saveSession([s EXCEPT !.completedSessions = r.completedSessions + 1], "work")
  ELSE handleModeChange(s, "work")

\* handleSkip
handleSkip(s, r) ==
  IF r.mode = "work"
  THEN LET newSessions == r.completedSessions + 1
           s1 == saveSession([s EXCEPT !.completedSessions = newSessions], "work")
       IN  IF newSessions % SESSIONS_UNTIL_LONG_BREAK = 0
           THEN handleModeChange(s1, "longBreak")
           ELSE handleModeChange(s1, "break")
  ELSE handleModeChange(s, "work")

\* an expiry that stops the timer and leaves the mode as it is
Expire_StopOnly(s, r) ==
  [s EXCEPT !.isRunning = FALSE, !.endTimeRef = Null, !.fired = @ + 1]

\* an expiry that only moves to the next mode, without handleSkip
Expire_ModeOnly(s, r) ==
  handleModeChange([s EXCEPT !.fired = @ + 1],
                   IF r.mode = "work" THEN "break" ELSE "work")

\* The expiry branch shared by updateTimer and handleVisibilityChange:
\* setIsRunning(false); endTimeRef.current = null; playNotification(); handleSkip()
Expire(s, r) ==
  handleSkip([s EXCEPT !.isRunning = FALSE, !.endTimeRef = Null, !.fired = @ + 1], r)

\* updateTimer that shows the remaining time and never ends the countdown
updateTimer_NoExpiry(s, r, t) ==
  IF Falsy(s.endTimeRef) THEN s
  ELSE [s EXCEPT !.timeLeft = computeRemaining(s.endTimeRef, t)]

\* updateTimer counting ticks: one second less at every invocation
updateTimer_CountTicks(s, r, t) ==
  IF Falsy(s.endTimeRef) THEN s
  ELSE LET remaining == Max(0, s.timeLeft - 1)
           s1 == [s EXCEPT !.timeLeft = remaining]
       IN  IF remaining = 0 THEN Expire(s1, r) ELSE s1

\* updateTimer without its first line: null - Date.now() is -Date.now()
updateTimer_NoGuard(s, r, t) ==
  LET remaining == computeRemaining(IF s.endTimeRef = Null THEN 0 ELSE s.endTimeRef, t)
      s1 == [s EXCEPT !.timeLeft = remaining]
  IN  IF remaining = 0 THEN Expire(s1, r) ELSE s1

\* updateTimer
updateTimer(s, r, t) ==
  IF Falsy(s.endTimeRef) THEN s
  ELSE LET remaining == computeRemaining(s.endTimeRef, t)
           s1 == [s EXCEPT !.timeLeft = remaining]
       IN  IF remaining = 0 THEN Expire(s1, r) ELSE s1

\* handleVisibilityChange recomputing whenever the tab is shown, whether or
\* not the timer runs
handleVisibilityChange_Always(s, r, vis, t) ==
  IF vis
  THEN LET remaining == computeRemaining(IF s.endTimeRef = Null THEN 0 ELSE s.endTimeRef, t)
           s1 == [s EXCEPT !.timeLeft = remaining]
       IN  IF remaining = 0 THEN Expire(s1, r) ELSE s1
  ELSE s

\* handleVisibilityChange that only refreshes timeLeft and leaves the expiry
\* to the next tick
handleVisibilityChange_NoExpiry(s, r, vis, t) ==
  IF vis /\ r.isRunning /\ ~Falsy(s.endTimeRef)
  THEN [s EXCEPT !.timeLeft = computeRemaining(s.endTimeRef, t)]
  ELSE s

\* handleVisibilityChange; vis is document.visibilityState === "visible"
handleVisibilityChange(s, r, vis, t) ==
  IF vis /\ r.isRunning /\ ~Falsy(s.endTimeRef)
  THEN LET remaining == computeRemaining(s.endTimeRef, t)
           s1 == [s EXCEPT !.timeLeft = remaining]
       IN  IF remaining = 0 THEN Expire(s1, r) ELSE s1
  ELSE s

\* ------------------------------------------ the hook without saveSession
\* The other usePomodoro of the repository: the same cells and ref, no
\* session write. p is its state (cells, ref and the render its closures
\* captured), each handler maps it to the state after it has run.

\* handleSkip that never takes the long break
plain_handleSkip_NoLongBreak(p) ==
  IF p.rendered.mode = "work"
  THEN [p EXCEPT !.completedSessions = p.rendered.completedSessions + 1,
                 !.mode = "break", !.timeLeft = TIMES["break"],
                 !.isRunning = FALSE, !.endTimeRef = Null]
  ELSE [p EXCEPT !.mode = "work", !.timeLeft = TIMES["work"],
                 !.isRunning = FALSE, !.endTimeRef = Null]

plain_handleModeChange(p, newMode) ==
  [p EXCEPT !.mode = newMode, !.timeLeft = TIMES[newMode],
            !.isRunning = FALSE, !.endTimeRef = Null]

plain_handleStart(p, t) ==
  [p EXCEPT !.endTimeRef = t + p.rendered.timeLeft * MsPerSec, !.isRunning = TRUE]

plain_handlePause(p) == [p EXCEPT !.isRunning = FALSE, !.endTimeRef = Null]

plain_handleReset(p) ==
  [p EXCEPT !.timeLeft = TIMES[p.rendered.mode], !.isRunning = FALSE,
            !.endTimeRef = Null]

plain_handleSkip(p) ==
  IF p.rendered.mode = "work"
  THEN LET newSessions == p.rendered.completedSessions + 1
           p1 == [p EXCEPT !.completedSessions = newSessions]
       IN  IF newSessions % SESSIONS_UNTIL_LONG_BREAK = 0
           THEN plain_handleModeChange(p1, "longBreak")
           ELSE plain_handleModeChange(p1, "break")
  ELSE plain_handleModeChange(p, "work")

\* updateTimer of its timer effect, which runs while that effect has armed
\* the animation frame and the interval
plain_updateTimer(p, t) ==
  IF ~p.rendered.isRunning \/ Falsy(p.endTimeRef) THEN p
  ELSE LET remaining == Max(0, Ceil(p.endTimeRef - t, 1000))
           p1 == [p EXCEPT !.timeLeft = remaining]
       IN  IF remaining = 0
           THEN plain_handleSkip([p1 EXCEPT !.isRunning = FALSE, !.endTimeRef = Null])
           ELSE p1

plain_handleVisibilityChange(p, vis, t) ==
  IF vis /\ p.rendered.isRunning /\ ~Falsy(p.endTimeRef)
  THEN LET remaining == Max(0, Ceil(p.endTimeRef - t, 1000))
           p1 == [p EXCEPT !.timeLeft = remaining]
       IN  IF remaining = 0
           THEN plain_handleSkip([p1 EXCEPT !.isRunning = FALSE, !.endTimeRef = Null])
           ELSE p1
  ELSE p

\* its play/pause button
plain_onPlayPause(p, t) ==
  IF p.rendered.isRunning THEN plain_handlePause(p) ELSE plain_handleStart(p, t)

\* ----------------------------------------------- saveSession, continued
\* What the awaited calls of saveSession can settle with. getUser: a user,
\* no user (data.user is null), or a rejected promise. insert: accepted, an
\* error result ({ error }) or a rejected promise.
GetUserOutcomes == {"user", "none", "throws"}
InsertOutcomes == {"ok", "error", "throws"}

\* What saveSession has in flight behind its second await, what the table
\* holds, and whether console.error is called (by the step being taken).
Store == [awaitingInsert |-> awaitingInsert, rows |-> rows, logged |-> FALSE]

\* props?.currentTask || null
orNull(text) == IF text = "" THEN NullText ELSE text

\* the row built from the mode current when the insert is issued
sessionRow_CurrentMode(call, userId, t) ==
  [user_id |-> userId,
   mode |-> IF mode = "work" THEN "pomodoro" ELSE mode,
   duration_minutes |-> TIMES[mode] \div SecsPerMin,
   task_name |-> orNull(call.currentTask),
   day_of_week |-> getDay(t)]

\* The object passed to insert(), built after getUser() has settled: t is
\* the clock read by new Date() at that moment, userId is user.id.
sessionRow(call, userId, t) ==
  [user_id |-> userId,
   mode |-> IF call.sessionMode = "work" THEN "pomodoro" ELSE call.sessionMode,
   duration_minutes |-> TIMES[call.sessionMode] \div SecsPerMin,
   task_name |-> orNull(call.currentTask),
   day_of_week |-> getDay(t)]

\* saveSession after getUser() without the test of user
afterGetUser_NoUserTest(st, call, outcome, t) ==
  IF outcome = "throws" THEN [st EXCEPT !.logged = TRUE]
  ELSE [st EXCEPT !.awaitingInsert = @ (+) SetToBag({sessionRow(call, SignedIn, t)})]

\* saveSession from the settlement of getUser() to the next await: the catch
\* block logs a rejection, a user leads to the insert, no user ends the call.
afterGetUser(st, call, outcome, t) ==
  IF outcome = "throws" THEN [st EXCEPT !.logged = TRUE]
  ELSE IF outcome = "user"
       THEN [st EXCEPT !.awaitingInsert = @ (+) SetToBag({sessionRow(call, SignedIn, t)})]
       ELSE st

\* saveSession from the settlement of the insert to its end: the catch block
\* logs a rejection; the result of the insert is not looked at. The table
\* holds the row when the insert is accepted.
afterInsert(st, row, outcome) ==
  IF outcome = "throws" THEN [st EXCEPT !.logged = TRUE]
  ELSE IF outcome = "ok" THEN [st EXCEPT !.rows = @ \cup {row}]
       ELSE st

\* ---------------------------------------------------------- the database
\* study_sessions: user_id and duration_minutes NOT NULL, and the two CHECK
\* constraints on mode and day_of_week.
study_sessions_check(row) ==
  /\ row.user_id # NullText
  /\ row.duration_minutes \in Int
  /\ row.mode \in {"pomodoro", "shortBreak", "longBreak"}
  /\ row.day_of_week >= 0 /\ row.day_of_week <= 6

\* weekly_goals: user_id and target_pomodoros NOT NULL, CHECK on day_of_week.
weekly_goals_check(row) ==
  /\ row.user_id # NullText
  /\ row.target_pomodoros \in Int
  /\ row.day_of_week >= 0 /\ row.day_of_week <= 6

TableCheck(table, row) ==
  IF table = "study_sessions" THEN study_sessions_check(row)
  ELSE weekly_goals_check(row)

\* weekly_goals: UNIQUE(user_id, day_of_week). The primary keys, random
\* uuids, are not modelled: two rows of study_sessions differ by content.
UniqueKey(table, row) ==
  IF table = "weekly_goals" THEN <<row.user_id, row.day_of_week>> ELSE row

\* Row level security is enabled on both tables. uid is auth.uid() of the
\* request, "anon" when it carries no session (auth.uid() is null and equals
\* no user_id). Using: the USING expression of the policy of the command;
\* a command without a policy is allowed on no row.
Using(table, cmd, uid, row) ==
  CASE table = "study_sessions" /\ cmd = "select" -> uid = row.user_id
    [] table = "study_sessions" /\ cmd = "delete" -> uid = row.user_id
    [] table = "weekly_goals" /\ cmd = "select" -> uid = row.user_id
    [] table = "weekly_goals" /\ cmd = "update" -> uid = row.user_id
    [] table = "weekly_goals" /\ cmd = "delete" -> uid = row.user_id
    [] OTHER -> FALSE

\* the new rows of an update left unchecked
WithCheck_InsertOnly(table, cmd, uid, row) ==
  CASE cmd = "insert" -> uid = row.user_id
    [] OTHER -> TRUE

\* The WITH CHECK expression a new row must satisfy: that of the insert
\* policies; an update policy without one applies its USING expression.
WithCheck(table, cmd, uid, row) ==
  CASE table = "study_sessions" /\ cmd = "insert" -> uid = row.user_id
    [] table = "weekly_goals" /\ cmd = "insert" -> uid = row.user_id
    [] cmd = "update" -> Using(table, cmd, uid, row)
    [] OTHER -> FALSE

\* Who issues statements, and the rows and values they are written with.
Issuers == Users \cup {"anon"}
Tables == {"study_sessions", "weekly_goals"}
Where == Users \cup {"any"}
SessionRows ==
  [user_id : Users, mode : {"pomodoro", "break"},
   duration_minutes : {TIMES.work \div SecsPerMin}, task_name : {NullText},
   day_of_week : {Saturday}]
GoalRows == [user_id : Users, day_of_week : {0, 1}, target_pomodoros : {4, 5}]
RowsFor(table) == IF table = "study_sessions" THEN SessionRows ELSE GoalRows
Assignments(table) ==
  [column : {"user_id"}, value : Users]
    \cup (IF table = "weekly_goals"
          THEN [column : {"target_pomodoros"}, value : {4, 5}] ELSE {})

\* A statement; the parts its command does not have are NoRow and NoSet.
NoRow == [user_id |-> "anon"]
NoSet == [column |-> "user_id", value |-> "anon"]
Statement(as, table, cmd, where, row, set) ==
  [row |-> row, table |-> table, cmd |-> cmd, as |-> as, where |-> where, set |-> set]

\* WHERE user_id = ..., or no WHERE clause
Match(stmt, row) == stmt.where = "any" \/ row.user_id = stmt.where

\* A statement run on table content T: the content it leaves, whether it
\* succeeded and the rows it returned. A failed statement changes nothing.
Exec(stmt, T) ==
  LET uid == stmt.as
      tbl == stmt.table
      failed == [table |-> T, ok |-> FALSE, returned |-> {}]
      Visible(r) == Using(tbl, "select", uid, r) /\ Match(stmt, r)
  IN  CASE stmt.cmd = "select" ->
             [table |-> T, ok |-> TRUE, returned |-> {r \in T : Visible(r)}]
        [] stmt.cmd = "insert" ->
             IF /\ WithCheck(tbl, "insert", uid, stmt.row)
                /\ TableCheck(tbl, stmt.row)
                /\ \/ tbl = "study_sessions"
                   \/ \A r \in T : UniqueKey(tbl, r) # UniqueKey(tbl, stmt.row)
             THEN [table |-> T \cup {stmt.row}, ok |-> TRUE, returned |-> {}]
             ELSE failed
        [] stmt.cmd = "update" ->
             LET targets == {r \in T : Using(tbl, "update", uid, r) /\ Visible(r)}
                 new == {[r EXCEPT ![stmt.set.column] = stmt.set.value] : r \in targets}
                 after == (T \ targets) \cup new
             IN  IF /\ \A r \in new : WithCheck(tbl, "update", uid, r) /\ TableCheck(tbl, r)
                    /\ Cardinality({UniqueKey(tbl, r) : r \in after}) = Cardinality(T)
                 THEN [table |-> after, ok |-> TRUE, returned |-> {}]
                 ELSE failed
        [] stmt.cmd = "delete" ->
             LET targets == {r \in T : Using(tbl, "delete", uid, r) /\ Visible(r)}
             IN  [table |-> T \ targets, ok |-> TRUE, returned |-> {}]

\* ------------------------------------------------------- SessionCounter
\* the indicators filled without the modulo
filledIndicators_NoMod(completed, sessionsUntilLongBreak) ==
  Cardinality({index \in 0 .. sessionsUntilLongBreak - 1 : index < completed})

\* SessionCounter: the indicators index of 0 .. sessionsUntilLongBreak - 1
\* drawn as completed, index < completedSessions % sessionsUntilLongBreak.
filledIndicators(completed, sessionsUntilLongBreak) ==
  Cardinality({index \in 0 .. sessionsUntilLongBreak - 1 :
                 index < completed % sessionsUntilLongBreak})

\* ------------------------------------------- Timer and the document title
\* the seconds shown without the modulo
Timer_seconds_NoMod(timeLeft_) == timeLeft_

\* Timer: Math.floor(timeLeft / 60) and timeLeft % 60, the minute scaled
\* like the durations.
Timer_minutes(timeLeft_) == timeLeft_ \div SecsPerMin
Timer_seconds(timeLeft_) == timeLeft_ % SecsPerMin

\* The title effect of usePomodoro: the same two expressions.
title_minutes(timeLeft_) == timeLeft_ \div SecsPerMin
title_seconds(timeLeft_) == timeLeft_ % SecsPerMin

\* Timer: ((totalTime - timeLeft) / totalTime) * 100, kept as the fraction
\* num / den (den > 0) instead of a floating-point number.
Timer_progress(timeLeft_, totalTime) ==
  [num |-> (totalTime - timeLeft_) * 100, den |-> totalTime]

\* ---------------------------------------------------------------- actions
\* run: startedAt is Date.now() at handleStart, startLeft the timeLeft cell at
\* that moment, obsAt the time of the last recomputation since (Null: none).
NoRun == [startedAt |-> Null, startLeft |-> 0, obsAt |-> Null]

\* interrupted: the mode of the countdown in progress that the step, a
\* command, has stopped ("none": there was none).
Quiet(op) == [op |-> op, recomputed |-> FALSE, firstObs |-> FALSE, overMs |-> Null,
              interrupted |-> "none"]

\* The state after a handler: s is the hook's new state, p that of the hook
\* without saveSession, sync says whether the render happens within the step.
Set(s, p, sync) ==
  /\ s.completedSessions <= MaxSessions
  /\ s.saveCalls <= MaxSaves
  /\ mode' = s.mode
  /\ timeLeft' = s.timeLeft
  /\ isRunning' = s.isRunning
  /\ completedSessions' = s.completedSessions
  /\ endTimeRef' = s.endTimeRef
  /\ saveCalls' = s.saveCalls
  /\ awaitingUser' = s.awaitingUser
  /\ rendered' = IF sync THEN View(s) ELSE rendered
  /\ plain' = [p EXCEPT !.rendered = IF sync THEN View(p) ELSE plain.rendered]
  /\ logged' = FALSE
  /\ UNCHANGED <<awaitingInsert, rows, pageVars, dbVars, otherPages>>

\* timeLeft reloaded with a mode's duration: a new stretch of countdown begins.
Reload(s) == [clean |-> s.timeLeft = TIMES[s.mode], runMs |-> 0]

\* A command that stops the countdown and reloads timeLeft.
Stop(s, p, op) ==
  /\ Set(s, p, TRUE)
  /\ fired' = s.fired
  /\ run' = NoRun
  /\ seg' = Reload(s)
  /\ last' = [Quiet(op) EXCEPT !.interrupted = IF endTimeRef # Null THEN mode ELSE "none"]
  /\ UNCHANGED <<now, skews>>

\* Controls, the play/pause button: onClick={isRunning ? onPause : onStart}
ClickPlayPause ==
  /\ IF rendered.isRunning
     THEN /\ Set(handlePause(Hook), plain_onPlayPause(plain, now), TRUE)
          /\ fired' = fired
          /\ run' = NoRun
          /\ last' = Quiet("pause")
     ELSE /\ Set(handleStart(Hook, rendered, now), plain_onPlayPause(plain, now), TRUE)
          /\ fired' = 0
          /\ run' = [startedAt |-> now, startLeft |-> timeLeft, obsAt |-> Null]
          /\ last' = Quiet("start")
  /\ UNCHANGED <<now, skews, seg>>

\* Controls, the reset button
ClickReset == Stop(handleReset(Hook, rendered), plain_handleReset(plain), "reset")

\* Controls, the skip button
ClickSkip == Stop(handleSkip(Hook, rendered), plain_handleSkip(plain), "skip")

\* The names of the mode buttons in `last`.
ModeOps == [work |-> "mode-work", break |-> "mode-break", longBreak |-> "mode-longBreak"]

\* ModeSelector, one button per mode
SelectMode ==
  \E m \in Modes :
    Stop(handleModeChange(Hook, m), plain_handleModeChange(plain, m), ModeOps[m])

\* A recomputation trigger: s is the state its handler leaves, did says
\* whether the handler got past its guard.
Trigger(s, p, op, did) ==
  /\ Set(s, p, FALSE)
  /\ fired' = s.fired
  /\ run' = IF s.endTimeRef = Null THEN NoRun
            ELSE IF did THEN [run EXCEPT !.obsAt = now] ELSE run
  /\ seg' = IF s.fired > fired THEN Reload(s) ELSE seg
  /\ last' = [op |-> op, recomputed |-> did,
              firstObs |-> did /\ run.obsAt = Null,
              overMs |-> IF s.fired > fired THEN now - endTimeRef ELSE Null,
              interrupted |-> "none"]
  /\ UNCHANGED <<now, skews>>

\* requestAnimationFrame(tick), armed by the timer effect while the rendered
\* isRunning is true
AnimationFrame ==
  /\ rendered.isRunning
  /\ Trigger(updateTimer(Hook, rendered, now), plain_updateTimer(plain, now),
             "raf", ~Falsy(endTimeRef))

\* setInterval(updateTimer, 1000), armed by the same effect
Interval ==
  /\ rendered.isRunning
  /\ Trigger(updateTimer(Hook, rendered, now), plain_updateTimer(plain, now),
             "interval", ~Falsy(endTimeRef))

\* document "visibilitychange": the tab is hidden (vis = FALSE) or shown again
\* (vis = TRUE); the listener is registered whatever isRunning is.
VisibilityChange ==
  \E vis \in BOOLEAN :
    Trigger(handleVisibilityChange(Hook, rendered, vis, now),
            plain_handleVisibilityChange(plain, vis, now),
            IF vis THEN "visibility" ELSE "hidden",
            vis /\ rendered.isRunning /\ ~Falsy(endTimeRef))

\* The render of the updates a trigger queued; the effects are set up again
\* with the new closures.
Render ==
  /\ rendered # View(Hook)
  /\ rendered' = View(Hook)
  /\ plain' = [plain EXCEPT !.rendered = View(plain)]
  /\ last' = Quiet("render")
  /\ UNCHANGED <<mode, timeLeft, isRunning, completedSessions, endTimeRef,
                 now, saveCalls, fired, run, seg, skews>>
  /\ logged' = FALSE
  /\ UNCHANGED <<awaitingUser, awaitingInsert, rows, pageVars, dbVars, otherPages>>

\* Wall-clock time passes.
AdvanceClock ==
  \E d \in ClockSteps :
    /\ now + d <= MaxNowSecs * MsPerSec
    /\ now' = now + d
    /\ seg' = IF endTimeRef # Null THEN [seg EXCEPT !.runMs = @ + d] ELSE seg
    /\ last' = Quiet("clock")
    /\ UNCHANGED <<mode, timeLeft, isRunning, completedSessions, endTimeRef,
                   rendered, saveCalls, fired, run, skews>>
    /\ logged' = FALSE
    /\ UNCHANGED <<awaitingUser, awaitingInsert, rows, plain, pageVars, dbVars, otherPages>>

\* The system clock is set back (Date.now() is not monotonic).
SetClockBack ==
  \E d \in ClockSteps :
    /\ skews < MaxSkew
    /\ now - d >= 0
    /\ now' = now - d
    /\ skews' = skews + 1
    /\ seg' = IF endTimeRef # Null THEN [seg EXCEPT !.runMs = @ - d] ELSE seg
    /\ last' = Quiet("skew")
    /\ UNCHANGED <<mode, timeLeft, isRunning, completedSessions, endTimeRef,
                   rendered, saveCalls, fired, run>>
    /\ logged' = FALSE
    /\ UNCHANGED <<awaitingUser, awaitingInsert, rows, plain, pageVars, dbVars, otherPages>>

\* A consumer of the hook calling handleStart while the timer runs.
DirectStart ==
  /\ rendered.isRunning
  /\ isRunning
  /\ Set(handleStart(Hook, rendered, now), plain_handleStart(plain, now), TRUE)
  /\ fired' = 0
  /\ run' = [startedAt |-> now, startLeft |-> timeLeft, obsAt |-> Null]
  /\ last' = Quiet("start-running")
  /\ UNCHANGED <<now, skews, seg>>

\* A consumer of the hook calling handlePause while the timer is stopped.
DirectPause ==
  /\ ~rendered.isRunning
  /\ Set(handlePause(Hook), plain_handlePause(plain), TRUE)
  /\ fired' = fired
  /\ run' = NoRun
  /\ last' = Quiet("pause-stopped")
  /\ UNCHANGED <<now, skews, seg>>

\* The names of the settlements in `last`.
GetUserOps == [user |-> "user", none |-> "no-user", throws |-> "getUser-throws"]
InsertOps == [ok |-> "insert-ok", error |-> "insert-error", throws |-> "insert-throws"]

\* A settlement leaves the hook's cells, the ref and the clock alone:
\* saveSession calls no setter.
Settle(st, op) ==
  /\ awaitingInsert' = st.awaitingInsert
  /\ rows' = st.rows
  /\ logged' = st.logged
  /\ last' = Quiet(op)
  /\ UNCHANGED <<mode, timeLeft, isRunning, completedSessions, endTimeRef,
                 rendered, now, saveCalls, fired, run, seg, skews, plain,
                 pageVars, dbVars, otherPages>>

\* await supabase.auth.getUser() settles for one of the pending calls.
GetUserSettles ==
  \E call \in BagToSet(awaitingUser), outcome \in GetUserOutcomes :
    /\ awaitingUser' = awaitingUser (-) SetToBag({call})
    /\ Settle(afterGetUser(Store, call, outcome, now), GetUserOps[outcome])

\* await supabase.from("study_sessions").insert(...) settles for one of the
\* pending calls.
InsertSettles ==
  \E row \in BagToSet(awaitingInsert), outcome \in InsertOutcomes :
    /\ awaitingUser' = awaitingUser
    /\ Settle(afterInsert([Store EXCEPT !.awaitingInsert = @ (-) SetToBag({row})],
                          row, outcome),
              InsertOps[outcome])

\* -------------------------------------------------- Index, the task list
\* A click handled by Index: the page is rendered with what it sets and the
\* hook, which it does not call, keeps its state.
Page(op) ==
  /\ rendered' = View(Hook)
  /\ plain' = [plain EXCEPT !.rendered = View(plain)]
  /\ last' = Quiet(op)
  /\ logged' = FALSE
  /\ UNCHANGED <<mode, timeLeft, isRunning, completedSessions, endTimeRef,
                 now, saveCalls, fired, run, seg, skews,
                 awaitingUser, awaitingInsert, rows, dbVars, otherPages>>

\* handleDeleteTask that also forgets the current task
DeleteTask_ClearCurrent ==
  \E i \in 1 .. Len(tasks) :
    LET Keep(task) == task.id # tasks[i].id
    IN  /\ tasks' = SelectSeq(tasks, Keep)
        /\ currentTaskName' = ""
        /\ UNCHANGED <<addedTexts, formVars>>
        /\ Page("delete-task")

\* handleAddTask(text): the task is appended with a fresh id and becomes
\* the current task.
handleAddTask(text) ==
  /\ Len(addedTexts) < MaxTasks
  /\ tasks' = Append(tasks, [id |-> Len(addedTexts) + 1, text |-> text,
                             completed |-> FALSE])
  /\ currentTaskName' = text
  /\ addedTexts' = Append(addedTexts, text)

\* A task is entered and submitted (the form opened, a text typed and
\* handleSubmit run, in one step).
AddTask ==
  \E text \in TaskTexts :
    /\ handleAddTask(text)
    /\ newTask' = ""
    /\ isAdding' = FALSE
    /\ Page("add-task")

\* TaskInput, the "Adicionar" button shown while the form is closed
OpenForm ==
  /\ ~isAdding
  /\ isAdding' = TRUE
  /\ UNCHANGED <<currentTaskName, tasks, addedTexts, newTask>>
  /\ Page("open-form")

\* TaskInput, the input's onChange
TypeText ==
  \E text \in TypedTexts :
    /\ isAdding
    /\ newTask' = text
    /\ UNCHANGED <<currentTaskName, tasks, addedTexts, isAdding>>
    /\ Page("type")

\* TaskInput, the cancel button of the form
CancelForm ==
  /\ isAdding
  /\ isAdding' = FALSE
  /\ newTask' = ""
  /\ UNCHANGED <<currentTaskName, tasks, addedTexts>>
  /\ Page("cancel-form")

\* TaskInput.handleSubmit, the form's onSubmit
SubmitForm ==
  /\ isAdding
  /\ IF trim(newTask) # ""
     THEN /\ handleAddTask(trim(newTask))
          /\ newTask' = ""
          /\ isAdding' = FALSE
     ELSE UNCHANGED <<currentTaskName, tasks, addedTexts, newTask, isAdding>>
  /\ Page("submit")

\* handleToggleTask(id)
ToggleTask ==
  \E i \in 1 .. Len(tasks) :
    /\ tasks' = [j \in 1 .. Len(tasks) |->
                   IF tasks[j].id = tasks[i].id
                   THEN [tasks[j] EXCEPT !.completed = ~@] ELSE tasks[j]]
    /\ UNCHANGED <<currentTaskName, addedTexts, formVars>>
    /\ Page("toggle-task")

\* handleDeleteTask(id)
DeleteTask ==
  \E i \in 1 .. Len(tasks) :
    LET Keep(task) == task.id # tasks[i].id
    IN  /\ tasks' = SelectSeq(tasks, Keep)
        /\ UNCHANGED <<currentTaskName, addedTexts, formVars>>
        /\ Page("delete-task")

\* ------------------------------------------- statements on the database
\* No statement has run.
NoStatement ==
  [stmt |-> Statement("anon", "study_sessions", "none", "any", NoRow, NoSet),
   ok |-> TRUE, returned |-> {}]

TableOf(table) == IF table = "study_sessions" THEN rows ELSE weekly_goals

\* The database runs stmt; the page is not involved.
Run(stmt) ==
  LET out == Exec(stmt, TableOf(stmt.table))
  IN  /\ rows' = IF stmt.table = "study_sessions" THEN out.table ELSE rows
      /\ weekly_goals' = IF stmt.table = "weekly_goals" THEN out.table ELSE weekly_goals
      /\ sql' = [stmt |-> stmt, ok |-> out.ok, returned |-> out.returned]
      /\ last' = Quiet("sql")
      /\ logged' = FALSE
      /\ UNCHANGED <<mode, timeLeft, isRunning, completedSessions, endTimeRef,
                     rendered, now, saveCalls, fired, run, seg, skews,
                     awaitingUser, awaitingInsert, plain, pageVars, otherPages>>

SqlSelect ==
  \E as \in Issuers, table \in Tables, where \in Where :
    Run(Statement(as, table, "select", where, NoRow, NoSet))

SqlInsert ==
  \E as \in Issuers, table \in Tables :
    \E row \in RowsFor(table) :
      Run(Statement(as, table, "insert", "any", row, NoSet))

SqlUpdate ==
  \E as \in Issuers, table \in Tables, where \in Where :
    \E set \in Assignments(table) :
      Run(Statement(as, table, "update", where, NoRow, set))

SqlDelete ==
  \E as \in Issuers, table \in Tables, where \in Where :
    Run(Statement(as, table, "delete", where, NoRow, NoSet))

\* ------------------------------------------------- Auth, the sign-up form
\* signUpPassword.length < 6
MinPasswordLength == 6

\* What the four inputs of the form are given.
Names == {"", "Ana"}
Emails == {"", "ana@x.io"}
Passwords == {"", "12345", "123456", "1234567"}

\* How await signUp(...) settles: { error: null }, { error } with one of
\* the messages the handler tells apart, or a rejected promise.
SignUpOutcomes == {"ok", "already registered", "invalid email", "failed", "throws"}

destructive(description) ==
  [title |-> "Erro", description |-> description, variant |-> "destructive"]

accountCreated ==
  [title |-> "Conta criada!",
   description |-> "Voce ja pode comecar a usar o Pomodoro",
   variant |-> "default"]

\* The toast of the first validation that fails, "valid" if none does.
signUpValidation_NoLengthTest(a) ==
  IF \/ a.signUpName = "" \/ a.signUpEmail = ""
     \/ a.signUpPassword = "" \/ a.signUpConfirmPassword = ""
  THEN "Preencha todos os campos"
  ELSE IF a.signUpPassword # a.signUpConfirmPassword
  THEN "As senhas nao coincidem"
  ELSE "valid"

signUpValidation(a) ==
  IF \/ a.signUpName = "" \/ a.signUpEmail = ""
     \/ a.signUpPassword = "" \/ a.signUpConfirmPassword = ""
  THEN "Preencha todos os campos"
  ELSE IF Len(a.signUpPassword) < MinPasswordLength
  THEN "A senha deve ter pelo menos 6 caracteres"
  ELSE IF a.signUpPassword # a.signUpConfirmPassword
  THEN "As senhas nao coincidem"
  ELSE "valid"

\* handleSignUp up to its await: setSignUpLoading(true), then either a
\* toast, setSignUpLoading(false) and return, or the call of signUp.
handleSignUp(a) ==
  LET failed == signUpValidation(a)
  IN  IF failed # "valid"
      THEN [a EXCEPT !.toasts = Append(@, destructive(failed)),
                     !.signUpLoading = FALSE,
                     !.submits = @ + 1]
      ELSE [a EXCEPT !.signUpLoading = TRUE,
                     !.submits = @ + 1,
                     !.pending = @ \cup {[email |-> a.signUpEmail,
                                          password |-> a.signUpPassword,
                                          name |-> a.signUpName]}]

errorMessage(message) ==
  CASE message = "already registered" -> "Este email ja esta cadastrado"
    [] message = "invalid email" -> "Email invalido"
    [] OTHER -> "Erro ao criar conta"

\* handleSignUp after its await.  A rejected promise ends the handler at
\* the await: nothing after it runs.
afterSignUp(a, call, outcome) ==
  LET b == [a EXCEPT !.pending = @ \ {call}]
  IN  CASE outcome = "throws" -> b
        [] outcome = "ok" ->
             [b EXCEPT !.toasts = Append(@, accountCreated),
                       !.path = "/",
                       !.signUpLoading = FALSE]
        [] OTHER ->
             [b EXCEPT !.toasts = Append(@, destructive(errorMessage(outcome))),
                       !.signUpLoading = FALSE]

\* A step of the Auth page: the hook, Index and the database keep their
\* state.
AuthStep(op) ==
  /\ last' = Quiet(op)
  /\ logged' = FALSE
  /\ UNCHANGED <<mode, timeLeft, isRunning, completedSessions, endTimeRef,
                 rendered, now, saveCalls, fired, run, seg, skews,
                 awaitingUser, awaitingInsert, rows, plain, pageVars, dbVars,
                 auth, report, thisWeek>>

\* onChange of the four inputs.
TypeSignUp ==
  /\ authPage.path = "/auth"
  /\ \/ \E v \in Names : authPage' = [authPage EXCEPT !.signUpName = v]
     \/ \E v \in Emails : authPage' = [authPage EXCEPT !.signUpEmail = v]
     \/ \E v \in Passwords : authPage' = [authPage EXCEPT !.signUpPassword = v]
     \/ \E v \in Passwords :
          authPage' = [authPage EXCEPT !.signUpConfirmPassword = v]
  /\ authPage' # authPage
  /\ AuthStep("signup-type")

\* The form is submitted; its button is disabled while signUpLoading.
SubmitSignUp ==
  /\ authPage.path = "/auth"
  /\ ~authPage.signUpLoading
  /\ authPage.submits < MaxSubmits
  /\ authPage' = handleSignUp(authPage)
  /\ AuthStep("signup-submit")

SignUpOps == [o \in SignUpOutcomes |->
                CASE o = "ok" -> "signup-ok"
                  [] o = "throws" -> "signup-throws"
                  [] OTHER -> "signup-error"]

\* await signUp(...) settles.
SignUpSettles ==
  \E call \in authPage.pending, outcome \in SignUpOutcomes :
    /\ authPage' = afterSignUp(authPage, call, outcome)
    /\ AuthStep(SignUpOps[outcome])

\* --------------------------------------------------------- AuthProvider
\* A session is told by its user; NoSession is null.
NoSession == "none"
Sessions == Users \cup {NoSession}

\* currentSession?.user ?? null
userOf(currentSession) ==
  IF currentSession = NoSession THEN NullText ELSE currentSession

\* The callback given to onAuthStateChange.
onAuthStateChange(a, currentSession) ==
  [a EXCEPT !.session = currentSession,
            !.user = userOf(currentSession),
            !.loading = FALSE]

\* The .then of supabase.auth.getSession().
getSessionThen(a, existingSession) ==
  [a EXCEPT !.session = existingSession,
            !.user = userOf(existingSession),
            !.loading = FALSE]

\* signOut after its await: setUser(null); setSession(null).
afterSignOut(a) ==
  [a EXCEPT !.user = NullText, !.session = NoSession]

\* How await supabase.auth.signOut() settles: the session is removed and
\* the listeners are notified, or an error is returned and it is kept.
SignOutOutcomes == {"ok", "error"}

\* A step of the AuthProvider or of the auth provider it listens to.
ContextStep(op) ==
  /\ last' = Quiet(op)
  /\ logged' = FALSE
  /\ UNCHANGED <<mode, timeLeft, isRunning, completedSessions, endTimeRef,
                 rendered, now, saveCalls, fired, run, seg, skews,
                 awaitingUser, awaitingInsert, rows, plain, pageVars, dbVars,
                 authPage, report, thisWeek>>

\* The auth state changes at the provider (a sign-in here or in another
\* tab, a sign-out elsewhere) and the listeners are notified: the event
\* waits to be delivered.
AuthStateChanges ==
  \E s \in Sessions :
    /\ auth.changes < MaxAuthChanges
    /\ s # auth.provider
    /\ auth' = [auth EXCEPT !.provider = s,
                            !.events = Append(@, s),
                            !.changes = @ + 1]
    /\ ContextStep("auth-change")

\* The listener is called with the oldest undelivered event.
EventDelivered ==
  /\ auth.events # <<>>
  /\ auth' = [onAuthStateChange(auth, Head(auth.events))
                EXCEPT !.events = Tail(auth.events)]
  /\ ContextStep("auth-event")

\* getSession() reads the session the provider holds.
SessionQueryReads ==
  /\ auth.query = "sent"
  /\ auth' = [auth EXCEPT !.query = "read", !.existingSession = auth.provider]
  /\ ContextStep("session-read")

\* The promise of getSession() resolves and its .then runs.
SessionQueryResolves ==
  /\ auth.query = "read"
  /\ auth' = [getSessionThen(auth, auth.existingSession)
                EXCEPT !.query = "done"]
  /\ ContextStep("session-query")

\* signOut() is called: supabase.auth.signOut() settles, then the two
\* setters run.
SignOutCalled ==
  /\ ~auth.signingOut
  /\ auth.changes < MaxAuthChanges
  /\ \E outcome \in SignOutOutcomes :
       auth' = [auth EXCEPT
                  !.signingOut = TRUE,
                  !.changes = @ + 1,
                  !.provider = IF outcome = "ok" THEN NoSession ELSE @,
                  !.events = IF outcome = "ok" /\ auth.provider # NoSession
                             THEN Append(@, NoSession) ELSE @]
  /\ ContextStep("sign-out")

SignOutSettles ==
  /\ auth.signingOut
  /\ auth' = [afterSignOut(auth) EXCEPT !.signingOut = FALSE]
  /\ ContextStep("signed-out")

\* --------------------------------------------------------- WeeklyReport
\* goal?.target_pomodoros || 4
DefaultTarget == 4
Days == 0 .. DaysPerWeek - 1

RECURSIVE Copies(_, _)
\* How many rows of the bag B are in the set S of its rows.
Copies(S, B) ==
  IF S = {} THEN 0
  ELSE LET r == CHOOSE x \in S : TRUE
       IN  CopiesIn(r, B) + Copies(S \ {r}, B)

\* sessions?.filter((s) => s.day_of_week === i).length || 0
completedOn(sessions, i) ==
  Copies({r \in BagToSet(sessions) : r.day_of_week = i}, sessions)

\* n || 4
orDefault(n) == IF n = 0 THEN DefaultTarget ELSE n

\* The loop of loadData: one DayData for each day, in order.
weekDataOf(sessions, processedGoals) ==
  [k \in 1 .. DaysPerWeek |->
     LET i == k - 1
         goal == {g \in processedGoals : g.day_of_week = i}
     IN  [dayOfWeek |-> i,
          completed |-> completedOn(sessions, i),
          target |-> IF goal = {} THEN DefaultTarget
                     ELSE orDefault((CHOOSE g \in goal : TRUE).target_pomodoros)]]

RECURSIVE reduce(_, _)
\* weekData.reduce((sum, d) => sum + d[field], 0)
reduce(weekData, field) ==
  IF weekData = <<>> THEN 0
  ELSE weekData[1][field] + reduce(Tail(weekData), field)

\* Math.round(c / t * 100) for c >= 0 and t > 0
roundPercent(c, t) == (200 * c + t) \div (2 * t)

calculateStats(weekData) ==
  LET totalCompleted == reduce(weekData, "completed")
      totalTarget == reduce(weekData, "target")
  IN  [totalCompleted |-> totalCompleted,
       totalTarget |-> totalTarget,
       percentage |-> IF totalTarget > 0
                      THEN roundPercent(totalCompleted, totalTarget) ELSE 0]

\* The suggestions pushed by the rules of generateSuggestions, each told by
\* its rule.
ruleSuggestions(weekData, today) ==
  LET stats == calculateStats(weekData)
      at == {k \in 1 .. Len(weekData) : weekData[k].dayOfWeek = today}
      todayBelow == \E k \in at : weekData[k].completed < weekData[k].target
      lowDays == {k \in 1 .. Len(weekData) :
                    /\ weekData[k].target > 0
                    /\ 2 * weekData[k].completed < weekData[k].target
                    /\ weekData[k].dayOfWeek < today}
      consecutiveCompleted ==
        {k \in 1 .. Len(weekData) :
           /\ weekData[k].dayOfWeek <= today
           /\ weekData[k].completed >= weekData[k].target}
      suggestions ==
        (IF todayBelow THEN <<"below-target-today">> ELSE <<>>)
        \o (IF stats.percentage < 50 THEN <<"below-50%">>
            ELSE IF stats.percentage >= 80 THEN <<"at-least-80%">> ELSE <<>>)
        \o (IF Cardinality(lowDays) > 0 THEN <<"low-days">> ELSE <<>>)
        \o (IF Cardinality(consecutiveCompleted) >= 3
            THEN <<"consistency">> ELSE <<>>)
  IN  suggestions

\* generateSuggestions without the default suggestion
generateSuggestions_NoDefault(weekData, today) ==
  ruleSuggestions(weekData, today)

generateSuggestions(weekData, today) ==
  LET suggestions == ruleSuggestions(weekData, today)
  IN  IF Len(suggestions) > 0 THEN suggestions ELSE <<"configure-your-goals">>

\* auth.uid() of a request the client sends now.
uidNow == IF auth.provider = NoSession THEN "anon" ELSE auth.provider

\* What the sessions query filtered by userId returns to the client.
sessionsOf(userId) ==
  IF userId = SignedIn /\ uidNow = SignedIn THEN thisWeek ELSE EmptyBag

\* What the goals query filtered by userId returns to the client.
goalsOf(userId) ==
  Exec(Statement(uidNow, "weekly_goals", "select", userId, NoRow, NoSet),
       weekly_goals).returned

\* A query as it is sent: its table, its user_id filter and the user the
\* auth context holds at that moment.
Query(table, userId) ==
  [table |-> table, user_id |-> userId, user |-> auth.user]

NoQuery == [table |-> "none", user_id |-> NullText, user |-> NullText]

\* loadData without its test of the user
loadData_NoUserTest(r, user) ==
  [r EXCEPT !.loading = TRUE,
            !.loads = @ \cup {[user |-> user, awaiting |-> "sessions",
                               sessions |-> EmptyBag]},
            !.query = Query("study_sessions", user)]

\* loadData called in a render whose user is user: up to the first await.
loadData(r, user) ==
  IF user = NullText THEN r
  ELSE [r EXCEPT !.loading = TRUE,
                 !.loads = @ \cup {[user |-> user, awaiting |-> "sessions",
                                    sessions |-> EmptyBag]},
                 !.query = Query("study_sessions", user)]

\* loadData from a thrown error on: catch and finally.
loadFailed(r, load) ==
  [r EXCEPT !.loads = @ \ {load}, !.loading = FALSE]

\* loadData between its two awaits.
afterSessions(r, load, sessions) ==
  [r EXCEPT !.loads = (@ \ {load})
                        \cup {[load EXCEPT !.awaiting = "goals",
                                           !.sessions = sessions]},
            !.query = Query("weekly_goals", load.user)]

\* loadData after its second await.
afterGoals(r, load, goalsData) ==
  [r EXCEPT !.loads = @ \ {load},
            !.goals = goalsData,
            !.weekData = weekDataOf(load.sessions, goalsData),
            !.loaded = load.sessions,
            !.loading = FALSE]

\* A step of the WeeklyReport page.
ReportStep(op, log) ==
  /\ last' = Quiet(op)
  /\ logged' = log
  /\ UNCHANGED <<mode, timeLeft, isRunning, completedSessions, endTimeRef,
                 rendered, now, saveCalls, fired, run, seg, skews,
                 awaitingUser, awaitingInsert, rows, plain, pageVars, sql,
                 authPage, auth, thisWeek>>

\* The page is rendered with new values of useAuth() and its two effects
\* run: navigate("/auth") if (!authLoading && !user), loadData() if (user)
\* and the user has changed.
ReportRenders ==
  LET seen == [user |-> auth.user, loading |-> auth.loading]
      r == [report EXCEPT
              !.seen = seen,
              !.path = IF ~auth.loading /\ auth.user = NullText
                       THEN "/auth" ELSE @]
  IN  /\ report.path = "/report"
      /\ report.seen # seen
      /\ report' = IF auth.user # report.seen.user
                   THEN loadData(r, auth.user) ELSE r
      /\ UNCHANGED weekly_goals
      /\ ReportStep("report-render", FALSE)

QueryOutcomes == {"ok", "error"}

\* The sessions query of a loadData settles.
SessionsSettle ==
  \E load \in report.loads, outcome \in QueryOutcomes :
    /\ load.awaiting = "sessions"
    /\ report' = IF outcome = "ok"
                 THEN afterSessions(report, load, sessionsOf(load.user))
                 ELSE loadFailed(report, load)
    /\ UNCHANGED weekly_goals
    /\ ReportStep(IF outcome = "ok" THEN "sessions-loaded" ELSE "load-failed",
                  outcome # "ok")

\* The goals query of a loadData settles.
GoalsSettle ==
  \E load \in report.loads, outcome \in QueryOutcomes :
    /\ load.awaiting = "goals"
    /\ report' = IF outcome = "ok"
                 THEN afterGoals(report, load, goalsOf(load.user))
                 ELSE loadFailed(report, load)
    /\ UNCHANGED weekly_goals
    /\ ReportStep(IF outcome = "ok" THEN "goals-loaded" ELSE "load-failed",
                  outcome # "ok")

\* The report is rendered on some day of the week: generateSuggestions().
Suggest ==
  \E today \in Days :
    /\ report.path = "/report"
    /\ ~auth.loading /\ ~report.loading
    /\ report' = [report EXCEPT
                    !.today = today,
                    !.suggestions = generateSuggestions(report.weekData, today)]
    /\ report' # report
    /\ UNCHANGED weekly_goals
    /\ ReportStep("suggest", FALSE)

\* The days whose goal is edited, and the targets typed: Number("") is 0.
EditDays == {1}
EditTargets == {0, 2}

\* startEditing(day); the subject of a goal is not modelled.
startEditing(r, day) ==
  LET dayData == {k \in 1 .. Len(r.weekData) : r.weekData[k].dayOfWeek = day}
  IN  [r EXCEPT !.editTarget =
                   IF dayData = {} THEN DefaultTarget
                   ELSE orDefault(r.weekData[CHOOSE k \in dayData : TRUE].target),
                !.editingDay = day]

cancelEditing(r) ==
  [r EXCEPT !.editingDay = Null, !.editTarget = DefaultTarget]

\* saveGoal called in a render whose user is user: up to its await. n
\* tells the call from the others.
saveGoal(r, user, n) ==
  IF user = NullText \/ r.editingDay = Null THEN r
  ELSE LET existingGoal == {g \in r.goals : g.day_of_week = r.editingDay}
           row == [user_id |-> user, day_of_week |-> r.editingDay,
                   target_pomodoros |-> r.editTarget]
       IN  [r EXCEPT !.saves = @ \cup
              {[n |-> n, user |-> user, row |-> row,
                cmd |-> IF existingGoal # {} THEN "update" ELSE "insert",
                existingGoal |-> IF existingGoal # {}
                                 THEN CHOOSE g \in existingGoal : TRUE ELSE row]}]

\* update({target_pomodoros}).eq("id", existingGoal.id) run as uid on the
\* table content T: the row of that id is the one with the goal's key.
updateById(uid, existingGoal, target, T) ==
  LET hit == {g \in T : UniqueKey("weekly_goals", g)
                          = UniqueKey("weekly_goals", existingGoal)}
      out == Exec(Statement(uid, "weekly_goals", "update", "any", NoRow,
                            [column |-> "target_pomodoros", value |-> target]),
                  hit)
  IN  [table |-> (T \ hit) \cup out.table, ok |-> out.ok]

\* The statement of a saveGoal call run as uid on the table content T.
runSave(uid, save, T) ==
  IF save.cmd = "update"
  THEN updateById(uid, save.existingGoal, save.row.target_pomodoros, T)
  ELSE LET out == Exec(Statement(uid, "weekly_goals", "insert", "any",
                                 save.row, NoSet), T)
       IN  [table |-> out.table, ok |-> out.ok]

NoAnswer == [ok |-> TRUE, as |-> "anon", user |-> NullText, cmd |-> "none",
             stored |-> FALSE]

\* saveGoal after its await: the toast, loadData() and cancelEditing(), or
\* the catch.
afterSave(r, save, ok) ==
  LET b == [r EXCEPT !.saves = @ \ {save}]
  IN  IF ok THEN cancelEditing(loadData(b, save.user)) ELSE b

StartEditing ==
  \E day \in EditDays :
    /\ report.path = "/report"
    /\ ~report.seen.loading /\ ~report.loading
    /\ \E k \in 1 .. Len(report.weekData) : report.weekData[k].dayOfWeek = day
    /\ report.editingDay = Null
    /\ report' = startEditing(report, day)
    /\ UNCHANGED weekly_goals
    /\ ReportStep("start-editing", FALSE)

TypeTarget ==
  \E value \in EditTargets :
    /\ report.path = "/report"
    /\ ~report.seen.loading /\ ~report.loading
    /\ report.editingDay # Null
    /\ value # report.editTarget
    /\ report' = [report EXCEPT !.editTarget = value]
    /\ UNCHANGED weekly_goals
    /\ ReportStep("type-target", FALSE)

CancelEditing ==
  /\ report.path = "/report"
  /\ ~report.seen.loading /\ ~report.loading
  /\ report.editingDay # Null
  /\ report' = cancelEditing(report)
  /\ UNCHANGED weekly_goals
  /\ ReportStep("cancel-editing", FALSE)

\* The save button of the day being edited is clicked.
SaveGoal ==
  /\ report.path = "/report"
  /\ ~report.seen.loading /\ ~report.loading
  /\ report.editingDay # Null
  /\ report.clicks < MaxGoalSaves
  /\ report' = [saveGoal(report, report.seen.user, report.clicks + 1)
                  EXCEPT !.clicks = @ + 1]
  /\ UNCHANGED weekly_goals
  /\ ReportStep("save-goal", FALSE)

\* The database runs the statement of a saveGoal call and its answer
\* reaches the page.
GoalSaveSettles ==
  \E save \in report.saves :
    LET out == runSave(uidNow, save, weekly_goals)
    IN  /\ weekly_goals' = out.table
        /\ report' = [afterSave(report, save, out.ok) EXCEPT
                        !.answer = [ok |-> out.ok, as |-> uidNow,
                                    user |-> save.user, cmd |-> save.cmd,
                                    stored |-> save.row \in out.table]]
        /\ ReportStep(IF out.ok THEN "goal-saved" ELSE "goal-refused", ~out.ok)

InitApp ==
  /\ mode = "work"
  /\ timeLeft = TIMES.work
  /\ isRunning = FALSE
  /\ completedSessions = 0
  /\ endTimeRef = Null
  /\ rendered = [mode |-> "work", timeLeft |-> TIMES.work, isRunning |-> FALSE,
                 completedSessions |-> 0]
  /\ now = 0
  /\ saveCalls = 0
  /\ fired = 0
  /\ run = NoRun
  /\ seg = [clean |-> TRUE, runMs |-> 0]
  /\ skews = 0
  /\ last = Quiet("init")
  /\ awaitingUser = EmptyBag
  /\ awaitingInsert = EmptyBag
  /\ rows = {}
  /\ logged = FALSE
  /\ plain = [mode |-> "work", timeLeft |-> TIMES.work, isRunning |-> FALSE,
              completedSessions |-> 0, endTimeRef |-> Null,
              rendered |-> [mode |-> "work", timeLeft |-> TIMES.work,
                            isRunning |-> FALSE, completedSessions |-> 0]]
  /\ currentTaskName = ""
  /\ tasks = <<>>
  /\ addedTexts = <<>>
  /\ newTask = ""
  /\ isAdding = FALSE
  /\ sql = NoStatement
  /\ authPage = [signUpName |-> "", signUpEmail |-> "", signUpPassword |-> "",
                 signUpConfirmPassword |-> "", signUpLoading |-> FALSE,
                 toasts |-> <<>>, pending |-> {}, path |-> "/auth",
                 submits |-> 0]
  /\ auth = [user |-> NullText, session |-> NoSession, loading |-> TRUE,
             provider |-> SignedIn, events |-> <<>>, query |-> "sent",
             existingSession |-> NoSession, signingOut |-> FALSE,
             changes |-> 0]
  /\ report = [path |-> "/report",
               seen |-> [user |-> NullText, loading |-> TRUE],
               weekData |-> <<>>, goals |-> {}, loading |-> TRUE,
               loads |-> {}, query |-> NoQuery, loaded |-> EmptyBag,
               today |-> Saturday, suggestions |-> <<>>,
               editingDay |-> Null, editTarget |-> DefaultTarget,
               saves |-> {}, clicks |-> 0, answer |-> NoAnswer]

\* Nothing stored yet.
Init ==
  /\ InitApp
  /\ weekly_goals = {}
  /\ thisWeek = EmptyBag

\* What the database holds for one day of SignedIn's week: so many
\* pomodoro rows, and a goal with this target or none (Null).
DayCases == {[completed |-> 0, goal |-> Null],
             [completed |-> 4, goal |-> Null],
             [completed |-> 1, goal |-> 1],
             [completed |-> 1, goal |-> 0]}

weekRow(i) ==
  [user_id |-> SignedIn, mode |-> "pomodoro",
   duration_minutes |-> TIMES.work \div SecsPerMin, task_name |-> NullText,
   day_of_week |-> i]

\* A week already stored when the report is opened.
InitWeek ==
  /\ InitApp
  /\ \E week \in [Days -> DayCases] :
       /\ weekly_goals = {[user_id |-> SignedIn, day_of_week |-> i,
                           target_pomodoros |-> week[i].goal] :
                            i \in {d \in Days : week[d].goal # Null}}
       /\ thisWeek = [r \in {weekRow(i) : i \in {d \in Days : week[d].completed > 0}}
                        |-> week[r.day_of_week].completed]

\* The application: the hook behind the buttons of Controls and ModeSelector.
Next ==
  \/ ClickPlayPause
  \/ ClickReset
  \/ ClickSkip
  \/ SelectMode
  \/ AnimationFrame
  \/ Interval
  \/ VisibilityChange
  \/ Render
  \/ AdvanceClock

Spec == Init /\ [][Next]_vars

\* The hook called directly, whatever isRunning is.
NextHook == Next \/ DirectStart \/ DirectPause

SpecHook == Init /\ [][NextHook]_vars

\* The application on a machine whose clock is adjusted while it runs.
NextSkew == Next \/ SetClockBack

SpecSkew == Init /\ [][NextSkew]_vars

\* Session writes issued and not settled yet.
InFlight == BagCardinality(awaitingUser) + BagCardinality(awaitingInsert)

\* The application with the awaited calls of saveSession settling at any
\* time and in any order: MaxStoreSaves calls in all, at most MaxInFlight of
\* them pending at a time, the clock read at whole seconds.
NextStore ==
  \/ /\ Next
     /\ saveCalls' <= MaxStoreSaves
     /\ InFlight' <= MaxInFlight
     /\ now' % MsPerSec = 0
  \/ GetUserSettles
  \/ InsertSettles

SpecStore == Init /\ [][NextStore]_vars

\* The application for as long as the clock and the counters have room for
\* the countdown being started: a countdown starts only if its target lies
\* within the clock's range and, in a Focus interval, if one more session
\* can be counted and written.
LiveBound ==
  /\ saveCalls' <= MaxLiveSaves
  /\ (isRunning' /\ ~isRunning) =>
       /\ endTimeRef' <= MaxNowSecs * MsPerSec
       /\ mode = "work" => saveCalls < MaxLiveSaves

NextLive == Next /\ LiveBound

\* The wall clock keeps advancing; setInterval(updateTimer, 1000), armed by
\* the timer effect while the rendered isRunning is true, keeps calling
\* back; React renders the updates that were queued.
Fairness ==
  /\ WF_vars(AdvanceClock /\ LiveBound)
  /\ WF_vars(Interval /\ LiveBound)
  /\ WF_vars(Render /\ LiveBound)

SpecLive == Init /\ [][NextLive]_vars /\ Fairness

\* Index with its task list: tasks are added, toggled and deleted while
\* Focus sessions are completed with the skip button and their writes settle.
NextTasks ==
  \/ ClickSkip /\ saveCalls' <= MaxStoreSaves /\ InFlight' <= MaxInFlight
  \/ GetUserSettles
  \/ InsertSettles
  \/ AddTask
  \/ ToggleTask
  \/ DeleteTask

SpecTasks == Init /\ [][NextTasks]_vars

\* TaskInput in Index: the form is opened, typed into, cancelled and
\* submitted, and tasks are toggled and deleted.
NextForm ==
  \/ OpenForm
  \/ TypeText
  \/ CancelForm
  \/ SubmitForm
  \/ ToggleTask
  \/ DeleteTask

SpecForm == Init /\ [][NextForm]_vars

\* The database under the statements of any signed-in or anonymous client.
NextRls ==
  \/ SqlSelect
  \/ SqlInsert
  \/ SqlUpdate
  \/ SqlDelete

SpecRls == Init /\ [][NextRls]_vars

\* The sign-up form of Auth: typed into, submitted, and its signUp settling.
NextSignUp ==
  \/ TypeSignUp
  \/ SubmitSignUp
  \/ SignUpSettles

SpecSignUp == Init /\ [][NextSignUp]_vars

\* The AuthProvider once mounted: its listener subscribed, its session query
\* sent, and the auth state changing meanwhile.
NextAuth ==
  \/ AuthStateChanges
  \/ EventDelivered
  \/ SessionQueryReads
  \/ SessionQueryResolves
  \/ SignOutCalled
  \/ SignOutSettles

SpecAuth == Init /\ [][NextAuth]_vars

\* The weekly report opened on a stored week: the session is found, the
\* report loads and shows its suggestions.
NextWeek ==
  \/ SessionQueryReads
  \/ SessionQueryResolves
  \/ ReportRenders
  \/ SessionsSettle
  \/ GoalsSettle
  \/ Suggest

SpecWeek == InitWeek /\ [][NextWeek]_vars

\* The weekly report of a user who stays signed in: the report loads, goals
\* are edited and saved.
NextGoals ==
  \/ SessionQueryReads
  \/ SessionQueryResolves
  \/ ReportRenders
  \/ SessionsSettle
  \/ GoalsSettle
  \/ StartEditing
  \/ TypeTarget
  \/ CancelEditing
  \/ SaveGoal
  \/ GoalSaveSettles

SpecGoals == Init /\ [][NextGoals]_vars

\* The weekly report under the AuthProvider: the auth state changes as well.
ReportBound ==
  /\ auth'.changes <= MaxReportChanges
  /\ report'.clicks <= MaxReportSaves

NextReport ==
  \/ NextGoals /\ ReportBound
  \/ AuthStateChanges /\ ReportBound
  \/ EventDelivered

SpecReport == Init /\ [][NextReport]_vars

\* ------------------------------------------------------------ properties
TriggerOps == {"raf", "interval", "visibility", "hidden"}

\* The step performed a Focus completion: handleSkip ran with mode = "work",
\* from the skip button or from an expiry.
FocusCompletion ==
  /\ last'.op = "skip" \/ fired' > fired
  /\ rendered.mode = "work"

\* C1: For every started countdown the expiry transition is made exactly once:
\* a trigger that finds the target instant reached while the target is still
\* set makes it, and every trigger invoked afterwards, also before the
\* transition is rendered, makes no transition and emits no completion.
C1_ExpiryOnce ==
  [][ /\ fired' <= 1
      /\ last'.op \in TriggerOps =>
           IF last'.recomputed /\ now >= endTimeRef
           THEN fired' = fired + 1 /\ saveCalls' <= saveCalls + 1 /\ ~isRunning'
           ELSE /\ fired' = fired
                /\ saveCalls' = saveCalls
                /\ completedSessions' = completedSessions
                /\ mode' = mode
    ]_vars

\* C1 witness: the countdown has expired, the transition is not rendered yet,
\* and a trigger has just been invoked again without effect.
C1_Witness ==
  /\ last.op \in {"raf", "interval", "visibility"}
  /\ ~last.recomputed
  /\ fired = 1
  /\ rendered.isRunning
  /\ ~isRunning

\* C2: The number of session-save calls always equals completedSessions:
\* exactly one SessionRecord per Focus completion, never two.
C2_OneRecordPerCompletion == saveCalls = completedSessions

\* C3: Cycle law. completedSessions starts at 0 and is never reset; a Focus
\* completion (skip or expiry) that brings the count to k goes to longBreak
\* if and only if k mod 4 = 0 and to break otherwise.
C3_CycleLaw ==
  [][ /\ completedSessions' >= completedSessions
      /\ completedSessions' <= completedSessions + 1
      /\ FocusCompletion =>
           /\ completedSessions' = rendered.completedSessions + 1
           /\ mode' = IF completedSessions' % 4 = 0 THEN "longBreak" ELSE "break"
    ]_vars

\* C3 witness: the eighth Focus completion, a natural expiry, has led to the
\* long break.
C3_Witness ==
  /\ completedSessions = 8
  /\ mode = "longBreak"
  /\ last.overMs # Null
  /\ last.op \in TriggerOps

\* C4: With only pause/start since timeLeft was loaded with duration(mode),
\* the wall-clock time spent running equals duration(mode) minus the
\* remaining time; checked at the recomputations where the remaining time is
\* a whole number of seconds, so that no rounding is involved.
C4_NoTimeLeak ==
  [][ ( /\ last'.recomputed
        /\ seg.clean
        /\ endTimeRef >= now
        /\ (endTimeRef - now) % 1000 = 0 )
      => seg.runMs = TIMES[mode] * 1000 - (endTimeRef - now)
    ]_vars

\* C5: handleStart called while the timer is running changes nothing: mode,
\* timeLeft, isRunning, completedSessions and endTimeRef stay as they are.
C5_StartWhileRunningNoOp ==
  [][ last'.op = "start-running" =>
        UNCHANGED <<mode, timeLeft, isRunning, completedSessions, endTimeRef>>
    ]_vars

\* C6: A recomputation made exactly d seconds after start(), 0 <= d <
\* remainingSeconds at start, yields remainingSeconds - d, leaves the timer
\* running and emits no completion.
C6_ExactAdvance ==
  [][ ( /\ last'.recomputed
        /\ run.startedAt # Null
        /\ now >= run.startedAt
        /\ (now - run.startedAt) % 1000 = 0
        /\ (now - run.startedAt) \div 1000 < run.startLeft )
      => /\ timeLeft' = run.startLeft - (now - run.startedAt) \div 1000
         /\ isRunning'
         /\ endTimeRef' = run.startedAt + run.startLeft * 1000
         /\ fired' = fired
         /\ saveCalls' = saveCalls
         /\ completedSessions' = completedSessions
         /\ mode' = mode
    ]_vars

\* C6 witness: a recomputation has just run a whole number d >= 1 of seconds
\* after the start, before the target.
C6_Witness ==
  /\ last.recomputed
  /\ isRunning
  /\ run.startedAt # Null
  /\ now - run.startedAt >= 1000
  /\ (now - run.startedAt) % 1000 = 0
  /\ timeLeft >= 1

\* The case of C7: the first recomputation since start() is the one of the
\* visibility listener, and it comes after the target instant.
BackgroundedPastTarget ==
  /\ last'.op = "visibility"
  /\ last'.firstObs
  /\ now > endTimeRef

\* C7 as stated: after that single recomputation remainingSeconds = 0 and
\* the completion has been processed exactly once.
C7_ZeroAfterRegain ==
  [][ BackgroundedPastTarget => timeLeft' = 0 /\ fired' = 1 /\ ~isRunning' ]_vars

\* C7 amended: after that single recomputation the completion has been
\* processed exactly once and completely (stopped, target cleared, mode
\* advanced by the skip policy, one record if the mode was work), and
\* remainingSeconds is the duration of the new mode, not 0.
C7_TransitionAfterRegain ==
  [][ BackgroundedPastTarget =>
        /\ fired' = 1
        /\ ~isRunning'
        /\ endTimeRef' = Null
        /\ mode' = IF mode # "work" THEN "work"
                   ELSE IF (completedSessions + 1) % 4 = 0 THEN "longBreak" ELSE "break"
        /\ timeLeft' = TIMES[mode']
        /\ saveCalls' = saveCalls + (IF mode = "work" THEN 1 ELSE 0)
        /\ completedSessions' = completedSessions + (IF mode = "work" THEN 1 ELSE 0)
    ]_vars

\* C7 witness: the tab came back at least half a second after the target,
\* nothing had recomputed since the start, and the transition is made.
C7_Witness ==
  /\ last.op = "visibility"
  /\ last.firstObs
  /\ last.overMs # Null
  /\ last.overMs >= 500
  /\ fired = 1
  /\ ~isRunning
  /\ timeLeft = TIMES[mode]

\* C8: endTimeRef is set if and only if isRunning is true.
C8_TargetIffRunning == (endTimeRef # Null) <=> isRunning

\* C8 witness: a natural expiry has cleared both.
C8_Witness ==
  /\ last.overMs # Null
  /\ fired = 1
  /\ endTimeRef = Null
  /\ ~isRunning

\* C9 as stated: while running, timeLeft = max(0, ceil((endTimeRef - now) /
\* 1000)) for the current time now.
C9_FreshRemaining ==
  isRunning => /\ endTimeRef # Null
               /\ timeLeft = Max(0, Ceil(endTimeRef - now, 1000))

\* C9 amended: while running, timeLeft = max(0, ceil((endTimeRef - t) / 1000))
\* for t the time of the last recomputation, or of start() when none has run
\* since; it is not refreshed while the clock advances between two triggers.
C9_RemainingAtLastObservation ==
  isRunning =>
    /\ endTimeRef # Null
    /\ run.startedAt # Null
    /\ LET t == IF run.obsAt = Null THEN run.startedAt ELSE run.obsAt
       IN  /\ timeLeft = Max(0, Ceil(endTimeRef - t, 1000))
           /\ timeLeft >= 1

\* C9 witness: running, a recomputation made mid-second has rounded up, and
\* the clock has since moved on so that the current remaining time is smaller.
C9_Witness ==
  /\ isRunning
  /\ run.obsAt # Null
  /\ (endTimeRef - run.obsAt) % 1000 # 0
  /\ now > run.obsAt
  /\ timeLeft > Max(0, Ceil(endTimeRef - now, 1000))

\* C10: 0 <= timeLeft <= duration(mode) in every reachable state.
C10_RemainingInRange == 0 <= timeLeft /\ timeLeft <= TIMES[mode]

\* C11: A natural expiry has the effect of handleSkip called from the same
\* state: same mode, isRunning, completedSessions, timeLeft and session-save
\* calls. A full Focus countdown from a count of 0, observed once exactly at
\* its target, gives completedSessions = 1, mode = break, isRunning = false,
\* and nothing but handleStart makes the timer run again.
C11_ExpiryIsSkip ==
  [][ /\ fired' > fired =>
           LET k == handleSkip(Hook, rendered)
           IN  /\ mode' = k.mode
               /\ isRunning' = k.isRunning
               /\ completedSessions' = k.completedSessions
               /\ timeLeft' = k.timeLeft
               /\ saveCalls' = k.saveCalls
               /\ awaitingUser' = k.awaitingUser
               /\ endTimeRef' = Null
      /\ ( /\ last'.op \in TriggerOps
           /\ last'.firstObs
           /\ mode = "work"
           /\ completedSessions = 0
           /\ run.startLeft = TIMES.work
           /\ now = run.startedAt + TIMES.work * MsPerSec )
         => /\ completedSessions' = 1
            /\ mode' = "break"
            /\ ~isRunning'
            /\ saveCalls' = saveCalls + 1
            /\ fired' = 1
      /\ (~isRunning /\ isRunning') => last'.op = "start"
    ]_vars

\* C11 witness: the first Focus countdown, started from its full duration,
\* has just expired at its first observation, exactly at the target.
C11_Witness ==
  /\ last.op \in TriggerOps
  /\ last.firstObs
  /\ last.overMs = 0
  /\ fired = 1
  /\ completedSessions = 1
  /\ saveCalls = 1
  /\ mode = "break"
  /\ timeLeft = TIMES.break
  /\ ~isRunning

\* C12: A skip or an expiry while mode is break or longBreak goes to work,
\* not running, with timeLeft = TIMES.work; completedSessions is unchanged and
\* saveSession is not called.
C12_BreakEndsInFocus ==
  [][ ( /\ mode \in {"break", "longBreak"}
        /\ last'.op = "skip" \/ fired' > fired )
      => /\ mode' = "work"
         /\ ~isRunning'
         /\ timeLeft' = TIMES.work
         /\ completedSessions' = completedSessions
         /\ saveCalls' = saveCalls
    ]_vars

\* C13: Selecting mode m, from any state, sets mode = m, timeLeft = TIMES[m],
\* isRunning = false and clears endTimeRef; completedSessions is unchanged and
\* saveSession is not called.
C13_ChangeMode ==
  [][ \A m \in Modes :
        last'.op = ModeOps[m] =>
          /\ mode' = m
          /\ timeLeft' = TIMES[m]
          /\ ~isRunning'
          /\ endTimeRef' = Null
          /\ completedSessions' = completedSessions
          /\ saveCalls' = saveCalls
          /\ awaitingUser' = awaitingUser
    ]_vars

\* C13 witness: the break mode was selected while a Focus countdown was in
\* progress, some time after its start.
C13_Witness ==
  /\ last.op = "mode-break"
  /\ last.interrupted = "work"
  /\ now > 0
  /\ mode = "break"
  /\ ~isRunning
  /\ completedSessions = 0
  /\ saveCalls = 0

\* C14: handleReset, from any state, sets timeLeft = TIMES[mode], isRunning =
\* false and clears endTimeRef, leaves mode and completedSessions unchanged
\* and calls no saveSession; a trigger firing after it leaves timeLeft alone.
C14_Reset ==
  [][ /\ last'.op = "reset" =>
           /\ timeLeft' = TIMES[mode]
           /\ ~isRunning'
           /\ endTimeRef' = Null
           /\ mode' = mode
           /\ completedSessions' = completedSessions
           /\ saveCalls' = saveCalls
      /\ (last.op = "reset" /\ last'.op \in TriggerOps) => timeLeft' = timeLeft
    ]_vars

PauseOps == {"pause", "pause-stopped"}

\* C15: handlePause clears endTimeRef, sets isRunning = false and keeps
\* timeLeft; called again, or while the timer is stopped, it changes nothing
\* that can be observed; a trigger firing after it changes nothing.
C15_Pause ==
  [][ /\ last'.op \in PauseOps =>
           /\ ~isRunning'
           /\ endTimeRef' = Null
           /\ UNCHANGED <<timeLeft, mode, completedSessions, saveCalls, awaitingUser>>
      /\ last'.op = "pause-stopped" =>
           UNCHANGED <<mode, timeLeft, isRunning, completedSessions, endTimeRef, rendered>>
      /\ (last.op \in PauseOps /\ last'.op \in TriggerOps) =>
           UNCHANGED <<mode, timeLeft, isRunning, completedSessions, endTimeRef,
                       rendered, saveCalls>>
    ]_vars

\* C15 witness: a countdown was paused part-way and handlePause has just been
\* called again.
C15_Witness ==
  /\ last.op = "pause-stopped"
  /\ ~isRunning
  /\ endTimeRef = Null
  /\ timeLeft >= 1
  /\ timeLeft < TIMES[mode]

\* C16: completedSessions never decreases: no command, trigger or settlement
\* of a session write lowers it, and it changes only by +1, in a Focus
\* completion (skip or expiry).
C16_CountMonotone ==
  [][ /\ completedSessions' >= completedSessions
      /\ completedSessions' # completedSessions =>
           /\ completedSessions' = completedSessions + 1
           /\ FocusCompletion
    ]_vars

\* C16 witness: two Focus sessions are counted and a session write has just
\* failed.
C16_Witness ==
  /\ completedSessions = 2
  /\ last.op \in {"getUser-throws", "insert-error", "insert-throws"}

\* The row of a Focus session of the nominal duration on the day the clock
\* starts, without a task.
NominalRow ==
  [user_id |-> SignedIn, mode |-> "pomodoro",
   duration_minutes |-> TIMES.work \div SecsPerMin,
   task_name |-> NullText, day_of_week |-> Saturday]

\* C17: Every row sent to or accepted by study_sessions reports the full
\* nominal Focus duration, floor(TIMES.work / 60) minutes, whatever part of
\* the interval had elapsed when it was skipped and whatever pauses it had.
C17_NominalDuration ==
  \A row \in rows \cup BagToSet(awaitingInsert) :
    /\ row.mode = NominalRow.mode
    /\ row.duration_minutes = NominalRow.duration_minutes

\* C17 witness: a row has just been accepted although less wall-clock time
\* than one Focus duration has passed since the timer was created.
C17_Witness ==
  /\ last.op = "insert-ok"
  /\ rows = {NominalRow}
  /\ now > 0
  /\ now < TIMES.work * MsPerSec

FailureOps == {"getUser-throws", "insert-error", "insert-throws"}
SettleOps == FailureOps \cup {"user", "no-user", "insert-ok"}

\* C18: When getUser() reports no user, saveSession issues no insert and logs
\* no error, and the timer state is left as the completion made it; the
\* completion itself counts the session and changes the mode whoever is
\* signed in.
C18_NoIdentityNoWrite ==
  [][ /\ last'.op = "no-user" =>
           /\ awaitingInsert' = awaitingInsert
           /\ rows' = rows
           /\ ~logged'
           /\ UNCHANGED <<mode, timeLeft, isRunning, completedSessions, endTimeRef>>
      /\ saveCalls' > saveCalls =>
           /\ completedSessions' = rendered.completedSessions + 1
           /\ mode' \in {"break", "longBreak"}
    ]_vars

\* C18 witness: one Focus session was completed, its identity lookup has
\* just answered that there is no user, nothing was inserted or is pending.
C18_Witness ==
  /\ last.op = "no-user"
  /\ completedSessions = 1
  /\ saveCalls = 1
  /\ mode = "break"
  /\ rows = {}
  /\ awaitingInsert = EmptyBag
  /\ awaitingUser = EmptyBag
  /\ ~logged

\* C19: When the session write fails (getUser() rejects, the insert rejects
\* or returns an error result) the error is logged, the call ends without a
\* retry, and mode, timeLeft, isRunning and completedSessions are untouched.
C19_FailureLoggedAndSwallowed ==
  [][ last'.op \in FailureOps =>
        /\ logged'
        /\ InFlight' = InFlight - 1
        /\ saveCalls' = saveCalls
        /\ UNCHANGED <<mode, timeLeft, isRunning, completedSessions, endTimeRef>>
    ]_vars

\* C20: The write is fire-and-forget: the step that calls saveSession also
\* completes the mode transition and only leaves getUser() pending; the
\* settlements of the writes, whenever and in whatever order they come, leave
\* the timer state alone.
C20_FireAndForget ==
  [][ /\ saveCalls' > saveCalls =>
           /\ saveCalls' = saveCalls + 1
           /\ BagCardinality(awaitingUser') = BagCardinality(awaitingUser) + 1
           /\ awaitingInsert' = awaitingInsert
           /\ rows' = rows
           /\ completedSessions' = rendered.completedSessions + 1
           /\ mode' \in {"break", "longBreak"}
           /\ timeLeft' = TIMES[mode']
           /\ ~isRunning'
           /\ endTimeRef' = Null
      /\ last'.op \in SettleOps =>
           UNCHANGED <<mode, timeLeft, isRunning, completedSessions, endTimeRef,
                       rendered, saveCalls, now>>
    ]_vars

\* C20 witness: a second Focus completion has just been made while the write
\* of the first one is still awaiting its insert.
C20_Witness ==
  /\ last.op = "skip" \/ last.overMs # Null
  /\ completedSessions = 2
  /\ saveCalls = 2
  /\ BagCardinality(awaitingInsert) = 1
  /\ BagCardinality(awaitingUser) = 1
  /\ mode = "break"

\* The state a timer is created in.
Created ==
  /\ mode = "work"
  /\ timeLeft = TIMES.work
  /\ ~isRunning
  /\ endTimeRef = Null
  /\ completedSessions = 0

\* C21: The timer is created with mode = work, timeLeft = TIMES.work,
\* isRunning = false, endTimeRef unset and completedSessions = 0, and a
\* recomputation trigger invoked in that state leaves it as it is.
C21_CreatedAndQuiet ==
  /\ Created
  /\ saveCalls = 0
  /\ [][ (Created /\ last'.op \in TriggerOps) =>
            /\ Created'
            /\ saveCalls' = saveCalls
            /\ ~last'.recomputed
        ]_vars

\* C21 witness: the clock has moved on, the tab was hidden and shown again,
\* no countdown was ever run and the timer is as it was created.
C21_Witness ==
  /\ last.op = "visibility"
  /\ Created
  /\ rendered = [mode |-> "work", timeLeft |-> TIMES.work, isRunning |-> FALSE,
                 completedSessions |-> 0]
  /\ now > 0
  /\ seg = [clean |-> TRUE, runMs |-> 0]
  /\ saveCalls = 0

\* C22: A recomputation at clock value t leaves timeLeft = max(0,
\* ceil((endTimeRef - t) / 1000)) whatever timeLeft was and however many
\* recomputations came before; it makes the expiry transition exactly when
\* that value is 0 and changes nothing else otherwise; a trigger invoked
\* right after a recomputation, at the same t, changes nothing.
C22_RecomputeIdempotent ==
  [][ /\ last'.recomputed =>
           LET remaining == Max(0, Ceil(endTimeRef - now, 1000))
           IN  IF remaining = 0
               THEN fired' = fired + 1
               ELSE /\ timeLeft' = remaining
                    /\ fired' = fired
                    /\ UNCHANGED <<mode, isRunning, completedSessions, endTimeRef,
                                   saveCalls>>
      /\ (last.recomputed /\ last'.op \in TriggerOps) =>
           UNCHANGED <<mode, timeLeft, isRunning, completedSessions, endTimeRef,
                       saveCalls>>
    ]_vars

\* C22 witness: a recomputation that is not the first since the start has
\* just run, part-way through a second, and the timer still runs.
C22_Witness ==
  /\ last.recomputed
  /\ ~last.firstObs
  /\ isRunning
  /\ run.obsAt = now
  /\ (endTimeRef - now) % 1000 # 0
  /\ timeLeft = Max(0, Ceil(endTimeRef - now, 1000))
  /\ timeLeft < run.startLeft

\* C26: Whenever the timer is not running timeLeft >= 1, in the state and in
\* what is rendered: a recomputation that yields 0 makes the mode transition
\* in the same step, which reloads timeLeft.
C26_NoRestAtZero ==
  /\ ~isRunning => timeLeft >= 1
  /\ ~rendered.isRunning => rendered.timeLeft >= 1

\* C26 witness: the interval has found the target passed and the timer rests
\* in the next mode with its full duration.
C26_Witness ==
  /\ last.op = "interval"
  /\ last.overMs # Null
  /\ last.overMs > 0
  /\ ~isRunning
  /\ timeLeft = TIMES[mode]
  /\ timeLeft >= 1

\* C30: SessionCounter fills exactly completedSessions mod
\* sessionsUntilLongBreak of its sessionsUntilLongBreak indicators (5
\* completed in a cycle of 4: 1 filled), and when a Focus completion has just
\* led to longBreak it fills none.
C30_CounterShowsModulo ==
  [][ /\ filledIndicators(rendered'.completedSessions, SESSIONS_UNTIL_LONG_BREAK)
           = rendered'.completedSessions % SESSIONS_UNTIL_LONG_BREAK
      /\ rendered'.completedSessions = 5 =>
           filledIndicators(rendered'.completedSessions, SESSIONS_UNTIL_LONG_BREAK) = 1
      /\ (FocusCompletion /\ mode' = "longBreak") =>
           filledIndicators(completedSessions', SESSIONS_UNTIL_LONG_BREAK) = 0
    ]_vars

\* C30 witness: five sessions are completed and rendered, one indicator is
\* filled.
C30_Witness ==
  /\ rendered.completedSessions = 5
  /\ completedSessions = 5
  /\ filledIndicators(rendered.completedSessions, SESSIONS_UNTIL_LONG_BREAK) = 1

\* C25: Given the same events, the usePomodoro without saveSession and the
\* one with it have the same mode, timeLeft, isRunning and completedSessions
\* at every step (and the same endTimeRef and rendered values); only the
\* latter makes session-save calls.
C25_SameTimer ==
  /\ View(plain) = View(Hook)
  /\ plain.endTimeRef = endTimeRef
  /\ plain.rendered = rendered

\* C25 witness: a Focus countdown has expired in both hooks, one of them has
\* made its save call, and both are in the break with one session counted.
C25_Witness ==
  /\ last.op \in {"raf", "interval", "visibility"}
  /\ last.overMs # Null
  /\ saveCalls = 1
  /\ plain.mode = "break"
  /\ plain.completedSessions = 1
  /\ View(plain) = View(Hook)
  /\ plain.rendered.mode = "work"

\* The pending call a step has taken from awaitingUser, and the row it has
\* put in awaitingInsert.
CallSettled == BagToSet(awaitingUser (-) awaitingUser')
RowBuilt == BagToSet(awaitingInsert' (-) awaitingInsert)

\* C23: The day_of_week of every row is the local calendar day on which the
\* Focus interval completed, also when supabase.auth.getUser() settles on a
\* later day.
C23_DayOfCompletion ==
  [][ last'.op = "user" =>
        \A call \in CallSettled, row \in RowBuilt :
          row.day_of_week = call.completedDay
    ]_vars

\* C28: Every row sent to or accepted by study_sessions has mode 'pomodoro'
\* (never a break mode), duration_minutes = floor(TIMES.work / 60),
\* day_of_week in 0 .. 6 and user_id equal to the id of the user getUser()
\* returned, so it satisfies the CHECK constraints of the table and the
\* WITH CHECK of its insert policy.
C28_RowShape ==
  \A row \in rows \cup BagToSet(awaitingInsert) :
    /\ row.mode = "pomodoro"
    /\ row.mode \notin {"break", "shortBreak", "longBreak"}
    /\ row.duration_minutes = TIMES.work \div SecsPerMin
    /\ row.day_of_week \in 0 .. 6
    /\ row.user_id = SignedIn
    /\ study_sessions_check(row)
    /\ WithCheck("study_sessions", "insert", SignedIn, row)

\* C28 witness: a row written after midnight has been accepted; its
\* day_of_week has wrapped from 6 to 0.
C28_Witness ==
  /\ last.op = "insert-ok"
  /\ now >= DaySecs * MsPerSec
  /\ \E row \in rows : row.day_of_week = 0 /\ row.mode = "pomodoro"

\* C29: The task_name of a row is the text of the task added last when the
\* Focus interval completed, null when no task had been added; toggling or
\* deleting a task changes neither the current task nor the label of a
\* write in flight or of a row.
C29_TaskLabel ==
  [][ /\ last'.op = "user" =>
           \A call \in CallSettled, row \in RowBuilt :
             row.task_name = call.lastAdded
      /\ last'.op \in {"toggle-task", "delete-task"} =>
           /\ UNCHANGED <<currentTaskName, awaitingUser, awaitingInsert, rows>>
           /\ orNull(currentTaskName') = lastAdded'
    ]_vars

\* C29 witness: one session was completed before any task was added and one
\* after the second task was; both rows are accepted and the list has been
\* emptied since.
C29_Witness ==
  /\ last.op = "delete-task"
  /\ addedTexts = <<"read", "write">>
  /\ tasks = <<>>
  /\ {row.task_name : row \in rows} = {NullText, "write"}
  /\ currentTaskName = "write"

\* The rows of T that A owns, and the others.
Own(T, A) == {r \in T : r.user_id = A}
Others(T, A) == {r \in T : r.user_id # A}

\* C24: A statement issued as A on study_sessions or weekly_goals returns
\* only rows whose user_id is A, and creates, changes or removes no row
\* whose user_id is not A; its outcome (success, rows returned, A's rows
\* afterwards) is the one it has on a table holding A's rows alone.
C24_OwnerScoped ==
  [][ last'.op = "sql" =>
        LET stmt == sql'.stmt
            A == stmt.as
            T == TableOf(stmt.table)
            after == IF stmt.table = "study_sessions" THEN rows' ELSE weekly_goals'
            alone == Exec(stmt, Own(T, A))
        IN  /\ sql'.returned \subseteq Own(T, A)
            /\ Others(after, A) = Others(T, A)
            /\ sql'.ok = alone.ok
            /\ sql'.returned = alone.returned
            /\ Own(after, A) = alone.table
            /\ stmt.table = "study_sessions" => weekly_goals' = weekly_goals
            /\ stmt.table = "weekly_goals" => rows' = rows
    ]_vars

\* C24 witness: u2 has rows in both tables, u1 has had a goal of its own,
\* and u1 has just tried to take over every goal: only its own row was a
\* target, the new row failed the check and the statement changed nothing.
C24_Witness ==
  /\ last.op = "sql"
  /\ sql.stmt.as = "u1"
  /\ sql.stmt.table = "weekly_goals"
  /\ sql.stmt.cmd = "update"
  /\ sql.stmt.where = "any"
  /\ sql.stmt.set = [column |-> "user_id", value |-> "u2"]
  /\ ~sql.ok
  /\ Own(weekly_goals, "u1") # {}
  /\ Own(weekly_goals, "u2") # {}
  /\ Own(rows, "u2") # {}

\* The commands that stop a countdown.
CommandOps == {"pause", "reset", "skip", "mode-work", "mode-break", "mode-longBreak"}

\* A trigger has just found the target passed and made the expiry transition.
Expired ==
  /\ last.op \in TriggerOps
  /\ last.overMs # Null
  /\ ~isRunning
  /\ endTimeRef = Null
  /\ timeLeft = TIMES[mode]

\* C27: With the clock advancing and the interval calling back, a running
\* timer whose countdown no pause, reset, mode change or skip stops
\* eventually expires: isRunning is false and the timer is in the next mode.
\* While it runs the effect that arms the animation frame and the interval
\* is set up (the rendered isRunning is true), and once it has stopped the
\* effect is eventually cleaned up.
C27_ExpiresEventually ==
  /\ [](isRunning => rendered.isRunning)
  /\ isRunning ~> (Expired \/ (~isRunning /\ last.op \in CommandOps))
  /\ ~isRunning ~> ~rendered.isRunning
  /\ [][ last'.overMs # Null =>
            /\ ~isRunning'
            /\ mode' # mode
            /\ mode = "work" <=> mode' # "work"
        ]_vars

\* C27 witness: a countdown was started, no command has been given since and
\* the interval has just made it expire, past its target.
C27_Witness ==
  /\ Expired
  /\ last.op = "interval"
  /\ last.overMs > 0
  /\ rendered.isRunning
  /\ mode = "break"

\* C38: For the timeLeft and totalTime a render passes to Timer, with
\* 0 <= timeLeft <= totalTime: minutes * (seconds per minute) + seconds =
\* timeLeft with 0 <= seconds < (seconds per minute); the title effect uses
\* the same decomposition; the progress lies in [0, 100] and is 0 when
\* timeLeft = totalTime.
C38_DisplayArithmetic ==
  LET shown == rendered.timeLeft
      totalTime == TIMES[rendered.mode]
      progress == Timer_progress(shown, totalTime)
  IN  (shown >= 0 /\ shown <= totalTime) =>
        /\ Timer_minutes(shown) * SecsPerMin + Timer_seconds(shown) = shown
        /\ Timer_seconds(shown) >= 0
        /\ Timer_seconds(shown) < SecsPerMin
        /\ title_minutes(shown) = Timer_minutes(shown)
        /\ title_seconds(shown) = Timer_seconds(shown)
        /\ progress.den > 0
        /\ progress.num >= 0
        /\ progress.num <= 100 * progress.den
        /\ shown = totalTime => progress.num = 0

\* C38 witness: a Focus countdown is shown with a whole minute left, part of
\* the way through.
C38_Witness ==
  /\ rendered.mode = "work"
  /\ rendered.isRunning
  /\ rendered.timeLeft < TIMES.work
  /\ Timer_minutes(rendered.timeLeft) >= 1
  /\ Timer_progress(rendered.timeLeft, TIMES.work).num > 0

\* C37: handleSubmit adds a task only when the typed text is not empty after
\* trimming, and the task's text (and the current task) is the trimmed
\* text; submitting an empty or whitespace-only text leaves the task list,
\* the current task, the typed text and the open form as they are. No task
\* ever holds an empty or untrimmed text.
C37_TrimmedOrNothing ==
  [][ /\ last'.op = "submit" =>
           IF trim(newTask) = ""
           THEN /\ UNCHANGED <<tasks, currentTaskName, newTask>>
                /\ isAdding /\ isAdding'
           ELSE /\ Len(tasks') = Len(tasks) + 1
                /\ tasks'[Len(tasks')].text = trim(newTask)
                /\ SubSeq(tasks', 1, Len(tasks)) = tasks
                /\ currentTaskName' = trim(newTask)
      /\ Len(tasks') > Len(tasks) => last'.op \in {"submit", "add-task"}
      /\ \A i \in 1 .. Len(tasks') :
           /\ tasks'[i].text # ""
           /\ SubSeq(tasks'[i].text, 1, 1) # " "
           /\ SubSeq(tasks'[i].text, Len(tasks'[i].text), Len(tasks'[i].text)) # " "
    ]_vars

\* C37 witness: a text typed with spaces around it was added trimmed, and a
\* whitespace-only text has just been submitted and is still in the open
\* form.
C37_Witness ==
  /\ last.op = "submit"
  /\ isAdding
  /\ newTask = "  "
  /\ Len(tasks) = 1
  /\ tasks[1].text = "read"
  /\ currentTaskName = "read"

\* C36: handleSignUp calls signUp only when name, email, password and
\* confirmation are all non-empty, the password has at least 6 characters
\* and equals the confirmation, and then with the email, password and name
\* of the form.  A submission that fails a validation makes no account
\* request, shows one error toast and leaves signUpLoading false.  When
\* signUp settles with an error or with success signUpLoading is false;
\* it is true with no request pending only after a signUp that rejected,
\* which is none of the three paths.
C36_ValidatedSignUp ==
  [][ LET valid == /\ authPage.signUpName # ""
                   /\ authPage.signUpEmail # ""
                   /\ authPage.signUpPassword # ""
                   /\ authPage.signUpConfirmPassword # ""
                   /\ Len(authPage.signUpPassword) >= MinPasswordLength
                   /\ authPage.signUpPassword = authPage.signUpConfirmPassword
          called == authPage'.pending \ authPage.pending
          shown == Len(authPage'.toasts) - Len(authPage.toasts)
      IN  /\ called # {} =>
                /\ last'.op = "signup-submit"
                /\ valid
                /\ called = {[email |-> authPage.signUpEmail,
                              password |-> authPage.signUpPassword,
                              name |-> authPage.signUpName]}
          /\ last'.op = "signup-submit" /\ ~valid =>
                /\ called = {}
                /\ shown = 1
                /\ authPage'.toasts[Len(authPage'.toasts)].variant = "destructive"
                /\ ~authPage'.signUpLoading
          /\ last'.op \in {"signup-error", "signup-ok"} =>
                /\ ~authPage'.signUpLoading
                /\ shown = 1
                /\ (authPage'.toasts[Len(authPage'.toasts)].variant = "destructive")
                     <=> (last'.op = "signup-error")
          /\ authPage'.signUpLoading /\ authPage'.pending = {} =>
                \/ last'.op = "signup-throws"
                \/ authPage.signUpLoading /\ authPage.pending = {}
    ]_vars

\* A submission with a 5-character password was refused with a toast, then
\* a valid one was sent and the provider answered with an error: two error
\* toasts and the flag false.
C36_Witness ==
  /\ last.op = "signup-error"
  /\ Len(authPage.toasts) = 2
  /\ authPage.toasts[1] = destructive("A senha deve ter pelo menos 6 caracteres")
  /\ authPage.toasts[2] = destructive("Este email ja esta cadastrado")
  /\ ~authPage.signUpLoading
  /\ authPage.pending = {}

\* Nothing is left to deliver to the AuthProvider.
AuthSettled ==
  /\ auth.query = "done"
  /\ auth.events = <<>>
  /\ ~auth.signingOut

\* C34: Once the session query and every auth-state event have been
\* delivered and no signOut is under way, the context's session and user
\* are those the provider holds, whatever the order of the deliveries; and
\* loading is false after the first delivery and never true again.
C34_LatestAuthState ==
  [][ /\ AuthSettled' =>
           /\ auth'.session = auth'.provider
           /\ auth'.user = userOf(auth'.provider)
      /\ last'.op \in {"auth-event", "session-query"} => ~auth'.loading
      /\ ~auth.loading => ~auth'.loading
    ]_vars

\* C32: After a successful load the report holds exactly 7 day entries with
\* dayOfWeek 0..6 in order; each entry's completed is the number of loaded
\* sessions with that day_of_week and its target is the target_pomodoros of
\* the goal stored for that day, or 4 when the day has no goal; the
\* completed of the 7 entries add up to the number of loaded sessions.
C32_WeekOfLoad ==
  last.op = "goals-loaded" =>
    /\ Len(report.weekData) = 7
    /\ \A k \in 1 .. 7 :
         LET d == report.weekData[k]
             stored == {g \in report.goals : g.day_of_week = k - 1}
         IN  /\ d.dayOfWeek = k - 1
             /\ d.completed =
                  BagCardinality([r \in {x \in BagToSet(report.loaded) :
                                           x.day_of_week = k - 1}
                                    |-> report.loaded[r]])
             /\ \A g \in stored : d.target = g.target_pomodoros
             /\ stored = {} => d.target = 4
    /\ reduce(report.weekData, "completed") = BagCardinality(report.loaded)

InList(x, list) == \E k \in 1 .. Len(list) : list[k] = x

\* C33: The suggestion list is never empty; when none of the five rules
\* fires it is exactly the default suggestion, and the default appears in
\* no other case; below-50% and at-least-80% are never both present.
C33_SuggestionsNeverEmpty ==
  [][ last'.op = "suggest" =>
        LET week == report.weekData
            today == report'.today
            list == report'.suggestions
            percentage == calculateStats(week).percentage
            below50 == percentage < 50
            atLeast80 == percentage >= 80
            todayBelow == \E k \in 1 .. Len(week) :
                            week[k].dayOfWeek = today
                            /\ week[k].completed < week[k].target
            low == \E k \in 1 .. Len(week) :
                     /\ week[k].dayOfWeek < today
                     /\ week[k].target > 0
                     /\ 2 * week[k].completed < week[k].target
            steady == Cardinality({k \in 1 .. Len(week) :
                                     /\ week[k].dayOfWeek <= today
                                     /\ week[k].completed >= week[k].target}) >= 3
            none == ~todayBelow /\ ~below50 /\ ~atLeast80 /\ ~low /\ ~steady
        IN  /\ Len(list) > 0
            /\ none <=> list = <<"configure-your-goals">>
            /\ none <=> InList("configure-your-goals", list)
            /\ ~(InList("below-50%", list) /\ InList("at-least-80%", list))
            /\ InList("below-50%", list) <=> below50
            /\ InList("at-least-80%", list) <=> atLeast80
            /\ InList("below-target-today", list) <=> todayBelow
            /\ InList("low-days", list) <=> low
            /\ InList("consistency", list) <=> steady
    ]_vars

\* On a Sunday with Sunday's four pomodoros done and between 50% and 80% of
\* the week's target, no rule fires and the default suggestion is shown.
C33_Witness ==
  /\ last.op = "suggest"
  /\ report.today = 0
  /\ Len(report.weekData) = 7
  /\ report.suggestions = <<"configure-your-goals">>

\* C35: The weekly report sends no query without an authenticated user, and
\* every query it sends is filtered by the id of the user the auth context
\* holds; once auth loading has finished with no user, the page the effects
\* have run on has navigated to /auth.
C35_QueriesOfTheUser ==
  /\ report.query # NoQuery =>
       /\ report.query.user # NullText
       /\ report.query.user_id = report.query.user
  /\ (~report.seen.loading /\ report.seen.user = NullText) =>
       report.path = "/auth"

\* C35 as it holds: loadData starts, and sends its queries, only for a user
\* who was authenticated in the render whose effect or handler called it,
\* and both its queries are filtered by that user's id, also when the user
\* has signed out before the second one is sent; once auth loading has
\* finished with no user, the page the effects have run on has navigated
\* to /auth.
C35_QueriesOfTheCaller ==
  [][ /\ report'.query # NoQuery => report'.query.user_id # NullText
      /\ \A load \in report'.loads : load.user # NullText
      /\ (last'.op = "report-render" /\ report'.loads # report.loads) =>
           /\ auth.user # NullText
           /\ report'.query = [table |-> "study_sessions",
                               user_id |-> auth.user, user |-> auth.user]
      /\ last'.op = "sessions-loaded" =>
           /\ report'.query.table = "weekly_goals"
           /\ \E load \in report.loads \ report'.loads :
                report'.query.user_id = load.user
      /\ last'.op = "goal-saved" =>
           /\ report'.query.table = "study_sessions"
           /\ \E save \in report.saves \ report'.saves :
                /\ save.user # NullText
                /\ report'.query.user_id = save.user
      /\ (~report'.seen.loading /\ report'.seen.user = NullText) =>
           report'.path = "/auth"
    ]_vars

\* The goals query of a load is sent for SignedIn after the sign-out has
\* reached the auth context.
C35_Witness ==
  /\ last.op = "sessions-loaded"
  /\ report.query = [table |-> "weekly_goals", user_id |-> SignedIn,
                     user |-> NullText]

\* C31: A save for a day with a stored goal of the user is an update and a
\* save for a day without one is an insert; there is at most one goal for
\* each (user, day); and every save sent as its user succeeds and leaves
\* its goal stored, a second save for the same day sent before the reload
\* of the first has completed included.
C31_EverySaveSucceeds ==
  [][ /\ last'.op = "save-goal" =>
           \A save \in report'.saves \ report.saves :
             (save.cmd = "update")
               <=> (\E g \in weekly_goals :
                      UniqueKey("weekly_goals", g)
                        = UniqueKey("weekly_goals", save.row))
      /\ \A g, h \in weekly_goals' :
           UniqueKey("weekly_goals", g) = UniqueKey("weekly_goals", h) => g = h
      /\ (last'.op \in {"goal-saved", "goal-refused"}
            /\ report'.answer.as = report'.answer.user) =>
           /\ report'.answer.ok
           /\ report'.answer.stored
    ]_vars

====
